---- MODULE Spec2Model ----
(***************************************************************************)
(* Model of the sinusoid-extraction and harmonic-coupling core of          *)
(* star_shadow (src/timeseries_functions.py) and of the stage sequencing   *)
(* of src/star_shadow/main_functions.py.                                   *)
(*                                                                         *)
(* Abstractions used throughout:                                           *)
(*  - frequencies are integers on a grid; freq_res and f_orb (= 1/p_orb)   *)
(*    are given in grid units;                                             *)
(*  - phases are integers in units of pi/2 (PI = 2);                       *)
(*  - BIC values are integers in units of 0.001;                           *)
(*  - the residual array of a model is represented by its deviance         *)
(*    n*ln(2*pi*sum(r^2)/n) + n, the data term of calc_bic; the deviance   *)
(*    of a newly built model is chosen by the data (nondeterministic);     *)
(*  - a piece-wise linear trend (const, slope) is represented by the       *)
(*    sinusoid set that was subtracted from the signal before the fit;     *)
(*  - amplitudes are not modelled (they never decide control flow);        *)
(*  - sequences are 1-based, the source's arrays 0-based.                  *)
(***************************************************************************)
EXTENDS Integers, Sequences, FiniteSets, TLC

VARIABLES
    pc,          \* position in the function being executed
    n_sectors,   \* len(i_sectors)
    f_n,         \* accepted frequencies
    ph_n,        \* accepted phases
    f_n_temp,    \* candidate frequencies
    ph_n_temp,   \* candidate phases
    const_slope, \* linear trend, named by the sinusoid set it was fitted against
    resid,       \* deviance of the current residuals
    n_param,     \* parameter count used in the last BIC evaluation
    bic,         \* last evaluated BIC
    bic_prev,    \* BIC of the accepted model
    i,           \* loop counter of the running function
    aux          \* function-specific bookkeeping (record)

vars ==
    <<pc, n_sectors, f_n, ph_n, f_n_temp, ph_n_temp, const_slope, resid,
      n_param, bic, bic_prev, i, aux>>

(***************************************************************************)
(* Bounds of the model                                                     *)
(***************************************************************************)
\* largest number of sinusoids a prewhitening loop may build
MaxSin ==
    3
\* largest number of linear segments
MaxSectors ==
    2
\* ln(n) of calc_bic in units of 0.001 (n is the number of data points)
LnN ==
    3000

(***************************************************************************)
(* Program constants                                                       *)
(***************************************************************************)
\* np.pi in units of pi/2
PI ==
    2
\* delta-BIC threshold of the extraction loops (2, in units of 0.001)
BIC_THRESHOLD ==
    2000
\* freq_res = 1.5 / np.ptp(times), in grid units
freq_res ==
    6

(***************************************************************************)
(* Generic helpers                                                         *)
(***************************************************************************)
Abs(x) ==
    IF x < 0 THEN -x ELSE x

Min2(a, b) ==
    IF a < b THEN a ELSE b

\* np.delete(s, R): s without the positions in R, order kept
RECURSIVE np_delete(_, _)
np_delete(s, R) ==
    IF s = <<>> THEN <<>>
    ELSE LET n == Len(s)
             rest == np_delete(SubSeq(s, 1, n - 1), R)
         IN  IF n \in R THEN rest ELSE Append(rest, s[n])

\* positions of s as a set
Idx(s) ==
    1..Len(s)

(***************************************************************************)
(* Periodogram oracles                                                     *)
(***************************************************************************)
\* frequencies at which the periodogram of a residual may peak
Peaks ==
    {13, 16, 30}

\* values scargle_phase_single / scargle_phase may return:
\* phi = pi/2 - arctan2(b, a) - 2 pi f tau lies in [-pi, 2 pi]
RawPhases ==
    {PI, PI + 1}

\* (ph + pi) % (2 pi) - pi
WrapPhase(ph) ==
    ((ph + PI) % (2 * PI)) - PI

\* extract_single(times, resid, f0, fn): the highest peak in [f0, fn] with its
\* phase wrapped; f0 = fn = 0 selects the whole frequency range
extract_single(f0, fn) ==
    LET inside == {f \in Peaks : f0 <= f /\ f <= fn}
        window == IF f0 = 0 /\ fn = 0 THEN Peaks
                  ELSE IF inside = {} THEN {IF f0 < 1 THEN 1 ELSE f0}
                  ELSE inside
    IN  {<<f, WrapPhase(r)>> : f \in window, r \in RawPhases}

\* calc_bic(resid / signal_err, n_param) = deviance + n_param * ln(n)
calc_bic(dev, k) ==
    dev + k * LnN

\* linear_pars(times, signal - sum_sines(times, f, a, ph), i_sectors)
linear_pars(f, ph) ==
    [f |-> f, ph |-> ph]

(***************************************************************************)
(* Rayleigh chains (analysis_functions, not in src/)                       *)
(***************************************************************************)
RECURSIVE ChainClosure(_, _, _)
ChainClosure(S, f, r) ==
    LET T == S \cup {k \in Idx(f) : \E j \in S : Abs(f[k] - f[j]) < r}
    IN  IF T = S THEN S ELSE ChainClosure(T, f, r)

\* indices of the chain of frequencies within the Rayleigh criterion of each
\* other around f[idx] (idx is 0-based, the result holds 1-based positions)
f_within_rayleigh(idx, f, r) ==
    IF idx + 1 \in Idx(f) THEN ChainClosure({idx + 1}, f, r) ELSE {}

(***************************************************************************)
(* refine_subset, as seen by its callers: the entries at close_f are       *)
(* re-extracted within one freq_res of their value, or the input is kept   *)
(***************************************************************************)
RECURSIVE RefineEntries(_, _, _)
RefineEntries(close, f, ph) ==
    IF close = {} THEN {<<f, ph>>}
    ELSE LET j == CHOOSE k \in close : \A m \in close : k <= m
             rest == RefineEntries(close \ {j}, f, ph)
         IN  UNION {
               {<<[r[1] EXCEPT ![j] = e[1]], [r[2] EXCEPT ![j] = e[2]]>> :
                    e \in extract_single(r[1][j] - freq_res, r[1][j] + freq_res)}
               : r \in rest}

refine_subset(close_f, f, ph) ==
    {<<f, ph>>} \cup RefineEntries(close_f, f, ph)

(***************************************************************************)
(* extract_all                                                             *)
(***************************************************************************)
\* variant of the loop condition that accepts any decrease of the BIC
ea_continue_any(bp, b) ==
    bp - b > 0

\* variant of the loop condition that tests the size of the BIC change
ea_continue_abs(bp, b) ==
    Abs(bp - b) > BIC_THRESHOLD

\* variant of the commit: the accepted set is taken after the extraction
ea_accept_late(before, after) ==
    after

\* f_n = np.copy(f_n_temp) at the top of the loop body: the accepted set is
\* the candidate set as it was before this pass extracted anything
ea_accept(before, after) ==
    before

\* np.inf
Inf ==
    1000000000

\* the loop condition: bic_prev - bic > 2
ea_continue(bp, b) ==
    bp - b > BIC_THRESHOLD

\* deviance gains the data may give to a model with one more sinusoid
Gains ==
    {0, 3 * LnN + BIC_THRESHOLD, 3 * LnN + BIC_THRESHOLD + 1}

EA_Init ==
    /\ pc = "ea_loop"
    /\ n_sectors \in 1..MaxSectors
    /\ f_n_temp = <<>> /\ ph_n_temp = <<>>
    /\ f_n = <<>> /\ ph_n = <<>>
    /\ const_slope = linear_pars(<<>>, <<>>)
    /\ resid = 0
    /\ n_param = 2 * n_sectors
    /\ bic_prev = Inf
    /\ bic = calc_bic(resid, n_param)
    /\ i = 0
    /\ aux = [bic_0 |-> bic, dev_n |-> resid, snap_f |-> <<>>, snap_ph |-> <<>>]

\* one pass of the while loop
EA_Iterate ==
    /\ pc = "ea_loop"
    /\ ea_continue(bic_prev, bic)
    /\ Len(f_n_temp) < MaxSin
    /\ bic_prev' = bic
    /\ \E e \in extract_single(0, 0) :
         LET f1 == Append(f_n_temp, e[1])
             ph1 == Append(ph_n_temp, e[2])
             close_f == f_within_rayleigh(i, f1, freq_res)
             outs == IF i > 0 /\ Cardinality(close_f) > 1
                     THEN refine_subset(close_f, f1, ph1)
                     ELSE {<<f1, ph1>>}
         IN  \E r \in outs :
               /\ f_n_temp' = r[1] /\ ph_n_temp' = r[2]
               /\ const_slope' = linear_pars(r[1], r[2])
    /\ f_n' = ea_accept(f_n_temp, f_n_temp')
    /\ ph_n' = ea_accept(ph_n_temp, ph_n_temp')
    /\ n_param' = 2 * n_sectors + 3 * Len(f_n_temp')
    /\ \E g \in Gains :
         /\ resid' = resid - g
         /\ bic' = calc_bic(resid', n_param')
         /\ Len(f_n_temp') = MaxSin => ~ea_continue(bic_prev', bic')
    /\ i' = i + 1
    /\ aux' = [aux EXCEPT !.dev_n = resid, !.snap_f = f_n_temp,
                           !.snap_ph = ph_n_temp]
    /\ UNCHANGED <<pc, n_sectors>>

\* loop exit: the trend is redone for the accepted set, which is returned
EA_Return ==
    /\ pc = "ea_loop"
    /\ ~ea_continue(bic_prev, bic)
    /\ const_slope' = linear_pars(f_n, ph_n)
    /\ pc' = "ea_done"
    /\ UNCHANGED <<n_sectors, f_n, ph_n, f_n_temp, ph_n_temp, resid, n_param,
                   bic, bic_prev, i, aux>>

EA_Next ==
    \/ EA_Iterate
    \/ EA_Return

SpecEA ==
    EA_Init /\ [][EA_Next]_vars

\* BIC recomputed from the accepted sinusoid set and its refitted trend
EA_RecomputedBIC ==
    calc_bic(aux.dev_n, 2 * n_sectors + 3 * Len(f_n))

\* C1: every step of extract_all that changes the accepted set commits a set
\* whose BIC is more than 2 below the BIC of the set accepted before it, and
\* a candidate whose improvement is 2 or less is never committed.
C1_CommitImprovesBIC ==
    [][/\ f_n' # f_n =>
            /\ bic_prev' = calc_bic(resid, 2 * n_sectors + 3 * Len(f_n'))
            /\ bic_prev - bic_prev' > BIC_THRESHOLD
       /\ (pc = "ea_loop" /\ bic_prev - bic <= BIC_THRESHOLD) =>
            (f_n' = f_n /\ ph_n' = ph_n)]_vars

\* two sets were committed after the trend-only model, a third was rejected
C1_Witness ==
    /\ pc = "ea_done"
    /\ Len(f_n) = 2
    /\ bic_prev - bic <= BIC_THRESHOLD

\* C2: when extract_all has returned, its loop body ran i >= 1 times and the
\* returned set is the set of i - 1 sinusoids that was accepted before the
\* last extraction; the last candidate and its refinement are not in it.
C2_ReturnsPreviousSet ==
    pc = "ea_done" =>
        /\ i >= 1
        /\ Len(f_n) = i - 1 /\ Len(ph_n) = i - 1
        /\ f_n = aux.snap_f /\ ph_n = aux.snap_ph
        /\ Len(f_n_temp) = i

\* the rejected candidate was refined together with an accepted frequency,
\* and the returned set still holds the unrefined accepted values
C2_Witness ==
    /\ pc = "ea_done"
    /\ i = 3
    /\ \E k \in 1..2 : f_n_temp[k] # f_n[k]

\* C8 as stated: the recomputed BIC of the returned model is strictly lower
\* than the BIC of the trend-only model, for every input.
C8_StrictlyLowerThanTrendOnly ==
    pc = "ea_done" => EA_RecomputedBIC < aux.bic_0

\* C8 amended: the recomputed BIC of the returned model is never higher than
\* the BIC of the trend-only model; it is strictly lower when the returned
\* set holds at least one sinusoid and equal when it is empty.
C8_NotHigherThanTrendOnly ==
    pc = "ea_done" =>
        /\ EA_RecomputedBIC <= aux.bic_0
        /\ Len(f_n) > 0 => EA_RecomputedBIC < aux.bic_0
        /\ Len(f_n) = 0 => EA_RecomputedBIC = aux.bic_0

\* a non-empty set was returned
C8_Witness ==
    /\ pc = "ea_done"
    /\ Len(f_n) >= 1
    /\ EA_RecomputedBIC < aux.bic_0

(***************************************************************************)
(* reduce_frequencies                                                      *)
(***************************************************************************)
\* np.round(x, 2) for x in units of 0.001 (round half to even)
Round2(x) ==
    LET q == x \div 10
        r == x % 10
    IN  IF r < 5 THEN 10 * q
        ELSE IF r > 5 THEN 10 * (q + 1)
        ELSE IF q % 2 = 0 THEN 10 * q ELSE 10 * (q + 1)

\* the accept test of the reduction passes: np.round(bic_prev - bic, 2) > 0
rf_improves(bp, b) ==
    Round2(bp - b) > 0

\* positions of f sorted by frequency (ties by position)
RECURSIVE SortedIdx(_, _)
SortedIdx(f, S) ==
    IF S = {} THEN <<>>
    ELSE LET k == CHOOSE a \in S :
                    \A b \in S : f[a] < f[b] \/ (f[a] = f[b] /\ a <= b)
         IN  <<k>> \o SortedIdx(f, S \ {k})

\* split a frequency-sorted index sequence where neighbours are r or more apart
RECURSIVE SplitChains(_, _, _, _)
SplitChains(f, srt, cur, r) ==
    IF srt = <<>> THEN (IF Len(cur) > 1 THEN <<cur>> ELSE <<>>)
    ELSE IF cur = <<>> \/ f[Head(srt)] - f[cur[Len(cur)]] < r
         THEN SplitChains(f, Tail(srt), Append(cur, Head(srt)), r)
         ELSE (IF Len(cur) > 1 THEN <<cur>> ELSE <<>>)
              \o SplitChains(f, Tail(srt), <<Head(srt)>>, r)

\* groups of two or more positions whose frequencies form a chain with
\* neighbours less than r apart (analysis_functions, not in src/)
chains_within_rayleigh(f, r) ==
    SplitChains(f, SortedIdx(f, Idx(f)), <<>>, r)

\* [g[p1..p2] for p1 in range(len(g) - 1) for p2 in range(p1 + 1, len(g))]
RECURSIVE RangesFrom(_, _, _)
RangesFrom(g, p1, p2) ==
    IF p1 >= Len(g) THEN <<>>
    ELSE IF p2 > Len(g) THEN RangesFrom(g, p1 + 1, p1 + 2)
    ELSE <<SubSeq(g, p1, p2)>> \o RangesFrom(g, p1, p2 + 1)

RECURSIVE AllRanges(_)
AllRanges(groups) ==
    IF groups = <<>> THEN <<>>
    ELSE RangesFrom(Head(groups), 1, 2) \o AllRanges(Tail(groups))

\* the elements of a sequence as a set
Range(s) ==
    {s[k] : k \in Idx(s)}

\* [k for j in remove_sets for k in f_sets[j]]
Members(sets, chosen) ==
    UNION {Range(sets[j]) : j \in Range(chosen)}

\* variant of the overlap that names only the accepted set itself
Overlap_self(sets, set_i) ==
    {k \in Idx(sets) : sets[k] = set_i}

\* s_indices[[np.any([j in set_i for j in subset]) for subset in f_sets]]
Overlap(sets, set_i) ==
    {k \in Idx(sets) : Range(sets[k]) \cap Range(set_i) # {}}

SetMin(S) ==
    CHOOSE a \in S : \A b \in S : a <= b

SetMax(S) ==
    CHOOSE a \in S : \A b \in S : a >= b

\* sinusoid sets given to the reduction
RF_Inputs ==
    {<<13>>, <<30, 13>>, <<13, 15>>, <<15, 30, 13>>, <<13, 16, 15>>}

\* change of the deviance the data may give to a model with fewer sinusoids
Losses ==
    {0, 4 * LnN, 7 * LnN}

\* n_param = 2 * n_sectors + 3 * len(f_n_temp) in the cluster-merge pass
rf_merge_n_param(ns, n_temp) ==
    2 * ns + 3 * n_temp

\* rejected keeps the frequencies tested and not marked since the accepted
\* BIC last changed
RF_Init ==
    /\ pc = "rf_single"
    /\ n_sectors \in 1..MaxSectors
    /\ f_n \in RF_Inputs
    /\ ph_n = [k \in Idx(f_n) |-> 0]
    /\ f_n_temp = <<>> /\ ph_n_temp = <<>>
    /\ const_slope = linear_pars(f_n, ph_n)
    /\ resid = 0
    /\ n_param = 2 * n_sectors + 3 * Len(f_n)
    /\ bic = calc_bic(resid, n_param)
    /\ bic_prev = bic
    /\ i = 1
    /\ aux = [bic_init |-> bic, f_in |-> f_n, dev_in |-> resid, dev_acc |-> resid,
              remove_single |-> {}, n_prev |-> 0,
              f_sets |-> <<>>, remove_sets |-> <<>>, used_sets |-> {},
              f_new |-> <<>>, ph_new |-> <<>>, eval_f |-> <<>>, sweeps |-> 1,
              rejected |-> {}]

\* for i in n_freq, i not in remove_single: test leaving out frequency i too
RF_SingleTest ==
    /\ pc = "rf_single"
    /\ i <= Len(f_n)
    /\ i \notin aux.remove_single
    /\ LET remove == aux.remove_single \cup {i}
       IN  /\ f_n_temp' = np_delete(f_n, remove)
           /\ ph_n_temp' = np_delete(ph_n, remove)
    /\ const_slope' = linear_pars(f_n_temp', ph_n_temp')
    /\ n_param' = 2 * n_sectors + 3 * Len(f_n_temp')
    /\ \E l \in Losses :
         /\ resid' = aux.dev_acc + l
         /\ bic' = calc_bic(resid', n_param')
    /\ IF rf_improves(bic_prev, bic')
       THEN /\ aux' = [aux EXCEPT !.remove_single = @ \cup {i},
                                  !.dev_acc = resid', !.eval_f = f_n_temp',
                                  !.rejected = {}]
            /\ bic_prev' = bic'
       ELSE /\ aux' = [aux EXCEPT !.eval_f = f_n_temp',
                                  !.rejected = @ \cup {i}]
            /\ bic_prev' = bic_prev
    /\ i' = i + 1
    /\ UNCHANGED <<pc, n_sectors, f_n, ph_n>>

\* for i in n_freq, i in remove_single: nothing to test
RF_SingleSkip ==
    /\ pc = "rf_single"
    /\ i <= Len(f_n)
    /\ i \in aux.remove_single
    /\ i' = i + 1
    /\ UNCHANGED <<pc, n_sectors, f_n, ph_n, f_n_temp, ph_n_temp, const_slope,
                   resid, n_param, bic, bic_prev, aux>>

\* the sweep marked a frequency: while (len(remove_single) > n_prev) goes on
RF_SingleSweep ==
    /\ pc = "rf_single"
    /\ i > Len(f_n)
    /\ Cardinality(aux.remove_single) > aux.n_prev
    /\ aux' = [aux EXCEPT !.n_prev = Cardinality(aux.remove_single),
                          !.sweeps = @ + 1, !.rejected = {}]
    /\ i' = 1
    /\ UNCHANGED <<pc, n_sectors, f_n, ph_n, f_n_temp, ph_n_temp, const_slope,
                   resid, n_param, bic, bic_prev>>

\* variant of the exit that does not ask for a sweep without a mark
RF_SingleDoneEarly ==
    /\ pc = "rf_single"
    /\ i > Len(f_n)
    /\ f_n' = np_delete(f_n, aux.remove_single)
    /\ ph_n' = np_delete(ph_n, aux.remove_single)
    /\ aux' = [aux EXCEPT
                 !.f_sets = AllRanges(chains_within_rayleigh(f_n', freq_res)),
                 !.n_prev = 0, !.sweeps = 1]
    /\ pc' = "rf_sets"
    /\ i' = 1
    /\ UNCHANGED <<n_sectors, f_n_temp, ph_n_temp, const_slope, resid, n_param,
                   bic, bic_prev>>

\* the sweep marked nothing: delete the marked frequencies, enumerate the sets
RF_SingleDone ==
    /\ pc = "rf_single"
    /\ i > Len(f_n)
    /\ ~(Cardinality(aux.remove_single) > aux.n_prev)
    /\ f_n' = np_delete(f_n, aux.remove_single)
    /\ ph_n' = np_delete(ph_n, aux.remove_single)
    /\ aux' = [aux EXCEPT
                 !.f_sets = AllRanges(chains_within_rayleigh(f_n', freq_res)),
                 !.n_prev = 0, !.sweeps = 1]
    /\ pc' = "rf_sets"
    /\ i' = 1
    /\ UNCHANGED <<n_sectors, f_n_temp, ph_n_temp, const_slope, resid, n_param,
                   bic, bic_prev>>

\* for i, set_i in enumerate(f_sets), i not in used_sets: test replacing the
\* set by one newly extracted frequency
RF_SetTest ==
    /\ pc = "rf_sets"
    /\ i <= Len(aux.f_sets)
    /\ i \notin aux.used_sets
    /\ LET set_i == aux.f_sets[i]
           remove == Members(aux.f_sets, aux.remove_sets) \cup Range(set_i)
           f_t == np_delete(f_n, remove) \o aux.f_new
           ph_t == np_delete(ph_n, remove) \o aux.ph_new
           lo == SetMin({f_n[k] : k \in Range(set_i)}) - freq_res
           hi == SetMax({f_n[k] : k \in Range(set_i)}) + freq_res
       IN  /\ f_n_temp' = f_t /\ ph_n_temp' = ph_t
           /\ n_param' = rf_merge_n_param(n_sectors, Len(f_t))
           /\ \E e \in extract_single(lo, hi), l \in Losses :
                /\ const_slope' = linear_pars(Append(f_t, e[1]), Append(ph_t, e[2]))
                /\ resid' = aux.dev_acc + l
                /\ bic' = calc_bic(resid', n_param')
                /\ IF rf_improves(bic_prev, bic')
                   THEN /\ aux' = [aux EXCEPT
                                     !.remove_sets = Append(@, i),
                                     !.used_sets = @ \cup Overlap(aux.f_sets, set_i),
                                     !.f_new = Append(@, e[1]),
                                     !.ph_new = Append(@, e[2]),
                                     !.dev_acc = resid',
                                     !.eval_f = Append(f_t, e[1])]
                        /\ bic_prev' = bic'
                   ELSE /\ aux' = [aux EXCEPT !.eval_f = Append(f_t, e[1])]
                        /\ bic_prev' = bic_prev
    /\ i' = i + 1
    /\ UNCHANGED <<pc, n_sectors, f_n, ph_n>>

\* for i, set_i in enumerate(f_sets), i in used_sets: nothing to test
RF_SetSkip ==
    /\ pc = "rf_sets"
    /\ i <= Len(aux.f_sets)
    /\ i \in aux.used_sets
    /\ i' = i + 1
    /\ UNCHANGED <<pc, n_sectors, f_n, ph_n, f_n_temp, ph_n_temp, const_slope,
                   resid, n_param, bic, bic_prev, aux>>

\* variant of the loop condition that sweeps again without a new set
RF_SetSweepAgain ==
    /\ pc = "rf_sets"
    /\ i > Len(aux.f_sets)
    /\ Len(aux.remove_sets) >= aux.n_prev
    /\ aux.sweeps <= Len(aux.f_sets) + 1
    /\ aux' = [aux EXCEPT !.n_prev = Len(aux.remove_sets), !.sweeps = @ + 1]
    /\ i' = 1
    /\ UNCHANGED <<pc, n_sectors, f_n, ph_n, f_n_temp, ph_n_temp, const_slope,
                   resid, n_param, bic, bic_prev>>

\* the sweep accepted a set: while (len(remove_sets) > n_prev) goes on
RF_SetSweep ==
    /\ pc = "rf_sets"
    /\ i > Len(aux.f_sets)
    /\ Len(aux.remove_sets) > aux.n_prev
    /\ aux' = [aux EXCEPT !.n_prev = Len(aux.remove_sets), !.sweeps = @ + 1]
    /\ i' = 1
    /\ UNCHANGED <<pc, n_sectors, f_n, ph_n, f_n_temp, ph_n_temp, const_slope,
                   resid, n_param, bic, bic_prev>>

\* the sweep accepted nothing: replace the accepted sets, refit the trend
RF_Return ==
    /\ pc = "rf_sets"
    /\ i > Len(aux.f_sets)
    /\ ~(Len(aux.remove_sets) > aux.n_prev)
    /\ f_n' = np_delete(f_n, Members(aux.f_sets, aux.remove_sets)) \o aux.f_new
    /\ ph_n' = np_delete(ph_n, Members(aux.f_sets, aux.remove_sets)) \o aux.ph_new
    /\ const_slope' = linear_pars(f_n', ph_n')
    /\ pc' = "rf_done"
    /\ UNCHANGED <<n_sectors, f_n_temp, ph_n_temp, resid, n_param, bic,
                   bic_prev, i, aux>>

RF_Next ==
    \/ RF_SingleTest
    \/ RF_SingleSkip
    \/ RF_SingleSweep
    \/ RF_SingleDone
    \/ RF_SetTest
    \/ RF_SetSkip
    \/ RF_SetSweep
    \/ RF_Return

SpecRF ==
    RF_Init /\ [][RF_Next]_vars

\* BIC of a model with the true parameter count:
\* 2 per segment + 3 per sinusoid
RF_TrueBIC(dev, f) ==
    calc_bic(dev, 2 * n_sectors + 3 * Len(f))

\* C3: when reduce_frequencies has returned, the BIC recomputed from its
\* output with 2 parameters per segment and 3 per output sinusoid is not
\* higher than the BIC of the input model computed the same way.
C3_ReductionNeverRaisesBIC ==
    pc = "rf_done" =>
        RF_TrueBIC(aux.dev_acc, f_n) <= RF_TrueBIC(aux.dev_in, aux.f_in)

\* C9: the parameter count used for the BIC of a merge candidate counts
\* every sinusoid of the evaluated model, the replacement frequency included.
C9_MergeCountsReplacement ==
    (pc = "rf_sets" /\ i > 1) =>
        n_param = 2 * n_sectors + 3 * Len(aux.eval_f)

(***************************************************************************)
(* Harmonic pattern matching (analysis_functions, not in src/)             *)
(***************************************************************************)
\* the orbital frequency 1 / p_orb on the frequency grid
f_orb ==
    8

\* the tight tolerance 1e-9: below the grid resolution, so only an exact
\* multiple is within it
F_TIGHT ==
    1

\* harmonic numbers of the pattern up to the highest frequency
PatternN(f, fo) ==
    IF f = <<>> THEN {}
    ELSE 1..((SetMax(Range(f)) + fo) \div fo)

\* for each harmonic number n the position of the frequency closest to
\* n / p_orb if it is within f_tol, the lowest position when equally close:
\* the set of pairs <<position, n>>
find_harmonics_from_pattern(f, fo, f_tol) ==
    {<<k, n>> \in Idx(f) \X PatternN(f, fo) :
        /\ Abs(f[k] - n * fo) < f_tol
        /\ \A j \in Idx(f) :
             \/ Abs(f[j] - n * fo) > Abs(f[k] - n * fo)
             \/ (Abs(f[j] - n * fo) = Abs(f[k] - n * fo) /\ k <= j)}

\* positions classified as harmonics with the default tolerance
Harmonics(f) ==
    {e[1] : e \in find_harmonics_from_pattern(f, f_orb, F_TIGHT)}

\* harmonic numbers present with the default tolerance
HarmonicN(f) ==
    {e[2] : e \in find_harmonics_from_pattern(f, f_orb, F_TIGHT)}

\* non_harm = np.delete(np.arange(len(f_n)), harmonics)
NonHarm(f) ==
    np_delete([k \in Idx(f) |-> k], Harmonics(f))

(***************************************************************************)
(* reduce_frequencies_harmonics                                            *)
(***************************************************************************)
\* sinusoid sets given to the reduction: harmonics are exact multiples
RFH_Inputs ==
    {<<8, 13>>, <<16, 13, 15>>, <<13, 8, 16>>, <<8, 30, 13>>, <<16, 15>>}

\* close_f_groups = [non_harm[group] for group in chains(f_n[non_harm])]
rfh_free_groups(f) ==
    LET nh == NonHarm(f)
        sub == [k \in Idx(nh) |-> f[nh[k]]]
        groups == chains_within_rayleigh(sub, freq_res)
    IN  [g \in Idx(groups) |-> [j \in Idx(groups[g]) |-> nh[groups[g][j]]]]

\* the sub-ranges of the chains of all frequencies that hold a harmonic
rfh_harm_sets(f) ==
    LET Has(set_i) == Range(set_i) \cap Harmonics(f) # {}
    IN  SelectSeq(AllRanges(chains_within_rayleigh(f, freq_res)), Has)

\* for i in non_harm: the candidates of the single-removal pass
rfh_single_candidates(f) ==
    NonHarm(f)

\* 2 * n_sectors + 1 + 2 * n_harm + 3 * (n_all - n_harm)
rfh_n_param(ns, n_harm, n_all) ==
    2 * ns + 1 + 2 * n_harm + 3 * (n_all - n_harm)

RFH_Init ==
    /\ pc = "rfh_single"
    /\ n_sectors \in 1..MaxSectors
    /\ f_n \in RFH_Inputs
    /\ ph_n = [k \in Idx(f_n) |-> 0]
    /\ f_n_temp = <<>> /\ ph_n_temp = <<>>
    /\ const_slope = linear_pars(f_n, ph_n)
    /\ resid = 0
    /\ n_param = rfh_n_param(n_sectors, Cardinality(Harmonics(f_n)), Len(f_n))
    /\ bic = calc_bic(resid, n_param)
    /\ bic_prev = bic
    /\ i = 1
    /\ aux = [bic_init |-> bic, f_in |-> f_n, dev_in |-> resid, dev_acc |-> resid,
              n_harm |-> Cardinality(Harmonics(f_n)),
              remove_single |-> {}, n_prev |-> 0,
              f_sets |-> <<>>, remove_sets |-> <<>>, used_sets |-> {},
              f_new |-> <<>>, ph_new |-> <<>>, eval_f |-> <<>>, sweeps |-> 1]

\* for i in non_harm, i not in remove_single: test leaving it out too
RFH_SingleTest ==
    /\ pc = "rfh_single"
    /\ i <= Len(rfh_single_candidates(f_n))
    /\ rfh_single_candidates(f_n)[i] \notin aux.remove_single
    /\ LET remove == aux.remove_single \cup {rfh_single_candidates(f_n)[i]}
       IN  /\ f_n_temp' = np_delete(f_n, remove)
           /\ ph_n_temp' = np_delete(ph_n, remove)
    /\ const_slope' = linear_pars(f_n_temp', ph_n_temp')
    /\ n_param' = rfh_n_param(n_sectors, aux.n_harm, Len(f_n_temp'))
    /\ \E l \in Losses :
         /\ resid' = aux.dev_acc + l
         /\ bic' = calc_bic(resid', n_param')
    /\ IF rf_improves(bic_prev, bic')
       THEN /\ aux' = [aux EXCEPT
                         !.remove_single = @ \cup {rfh_single_candidates(f_n)[i]},
                         !.dev_acc = resid', !.eval_f = f_n_temp']
            /\ bic_prev' = bic'
       ELSE /\ aux' = [aux EXCEPT !.eval_f = f_n_temp']
            /\ bic_prev' = bic_prev
    /\ i' = i + 1
    /\ UNCHANGED <<pc, n_sectors, f_n, ph_n>>

\* for i in non_harm, i in remove_single: nothing to test
RFH_SingleSkip ==
    /\ pc = "rfh_single"
    /\ i <= Len(rfh_single_candidates(f_n))
    /\ rfh_single_candidates(f_n)[i] \in aux.remove_single
    /\ i' = i + 1
    /\ UNCHANGED <<pc, n_sectors, f_n, ph_n, f_n_temp, ph_n_temp, const_slope,
                   resid, n_param, bic, bic_prev, aux>>

\* the sweep marked a frequency: while (len(remove_single) > n_prev) goes on
RFH_SingleSweep ==
    /\ pc = "rfh_single"
    /\ i > Len(rfh_single_candidates(f_n))
    /\ Cardinality(aux.remove_single) > aux.n_prev
    /\ aux' = [aux EXCEPT !.n_prev = Cardinality(aux.remove_single),
                          !.sweeps = @ + 1]
    /\ i' = 1
    /\ UNCHANGED <<pc, n_sectors, f_n, ph_n, f_n_temp, ph_n_temp, const_slope,
                   resid, n_param, bic, bic_prev>>

\* the sweep marked nothing: delete the marked frequencies, classify again,
\* enumerate the sets of non-harmonics
RFH_SingleDone ==
    /\ pc = "rfh_single"
    /\ i > Len(rfh_single_candidates(f_n))
    /\ ~(Cardinality(aux.remove_single) > aux.n_prev)
    /\ f_n' = np_delete(f_n, aux.remove_single)
    /\ ph_n' = np_delete(ph_n, aux.remove_single)
    /\ aux' = [aux EXCEPT !.f_sets = AllRanges(rfh_free_groups(f_n')),
                          !.n_prev = 0, !.sweeps = 1]
    /\ pc' = "rfh_sets"
    /\ i' = 1
    /\ UNCHANGED <<n_sectors, f_n_temp, ph_n_temp, const_slope, resid, n_param,
                   bic, bic_prev>>

\* for i, set_i in enumerate(f_sets), i not in used_sets: test replacing the
\* set of non-harmonics by one newly extracted frequency
RFH_SetTest ==
    /\ pc = "rfh_sets"
    /\ i <= Len(aux.f_sets)
    /\ i \notin aux.used_sets
    /\ LET set_i == aux.f_sets[i]
           remove == Members(aux.f_sets, aux.remove_sets) \cup Range(set_i)
           f_t == np_delete(f_n, remove) \o aux.f_new
           ph_t == np_delete(ph_n, remove) \o aux.ph_new
           lo == SetMin({f_n[k] : k \in Range(set_i)}) - freq_res
           hi == SetMax({f_n[k] : k \in Range(set_i)}) + freq_res
       IN  /\ f_n_temp' = f_t /\ ph_n_temp' = ph_t
           /\ n_param' = rfh_n_param(n_sectors, aux.n_harm, Len(f_t) + 1)
           /\ \E e \in extract_single(lo, hi), l \in Losses :
                /\ const_slope' = linear_pars(Append(f_t, e[1]), Append(ph_t, e[2]))
                /\ resid' = aux.dev_acc + l
                /\ bic' = calc_bic(resid', n_param')
                /\ IF rf_improves(bic_prev, bic')
                   THEN /\ aux' = [aux EXCEPT
                                     !.remove_sets = Append(@, i),
                                     !.used_sets = @ \cup Overlap(aux.f_sets, set_i),
                                     !.f_new = Append(@, e[1]),
                                     !.ph_new = Append(@, e[2]),
                                     !.dev_acc = resid',
                                     !.eval_f = Append(f_t, e[1])]
                        /\ bic_prev' = bic'
                   ELSE /\ aux' = [aux EXCEPT !.eval_f = Append(f_t, e[1])]
                        /\ bic_prev' = bic_prev
    /\ i' = i + 1
    /\ UNCHANGED <<pc, n_sectors, f_n, ph_n>>

\* for i, set_i in enumerate(f_sets), i in used_sets: nothing to test
RFH_SetSkip ==
    /\ pc = "rfh_sets"
    /\ i <= Len(aux.f_sets)
    /\ i \in aux.used_sets
    /\ i' = i + 1
    /\ UNCHANGED <<pc, n_sectors, f_n, ph_n, f_n_temp, ph_n_temp, const_slope,
                   resid, n_param, bic, bic_prev, aux>>

\* the sweep accepted a set: while (len(remove_sets) > n_prev) goes on
RFH_SetSweep ==
    /\ pc = "rfh_sets"
    /\ i > Len(aux.f_sets)
    /\ Len(aux.remove_sets) > aux.n_prev
    /\ aux' = [aux EXCEPT !.n_prev = Len(aux.remove_sets), !.sweeps = @ + 1]
    /\ i' = 1
    /\ UNCHANGED <<pc, n_sectors, f_n, ph_n, f_n_temp, ph_n_temp, const_slope,
                   resid, n_param, bic, bic_prev>>

\* the sweep accepted nothing: replace the accepted sets, classify again,
\* enumerate the sets that hold a harmonic
RFH_SetDone ==
    /\ pc = "rfh_sets"
    /\ i > Len(aux.f_sets)
    /\ ~(Len(aux.remove_sets) > aux.n_prev)
    /\ f_n' = np_delete(f_n, Members(aux.f_sets, aux.remove_sets)) \o aux.f_new
    /\ ph_n' = np_delete(ph_n, Members(aux.f_sets, aux.remove_sets)) \o aux.ph_new
    /\ aux' = [aux EXCEPT !.f_sets = rfh_harm_sets(f_n'),
                          !.remove_sets = <<>>, !.used_sets = {},
                          !.f_new = <<>>, !.ph_new = <<>>,
                          !.n_prev = 0, !.sweeps = 1]
    /\ pc' = "rfh_absorb"
    /\ i' = 1
    /\ UNCHANGED <<n_sectors, f_n_temp, ph_n_temp, const_slope, resid, n_param,
                   bic, bic_prev>>

\* ph_i = scargle_phase(times, signal - model, f_n[harm_i]): stored as computed
rfh_absorb_phase(r) ==
    r

\* variant of the pass-3 replacement: nothing is put back
rfh_absorb_keep_none(set_i, H) ==
    <<>>

\* harm_i = [h for h in set_i if h in harmonics]
rfh_absorb_keep(set_i, H) ==
    LET IsHarm(h) == h \in H
    IN  SelectSeq(set_i, IsHarm)

\* for i, set_i in enumerate(f_sets), i not in used_sets: test replacing the
\* set by its harmonics alone, at their fixed frequencies
RFH_AbsorbTest ==
    /\ pc = "rfh_absorb"
    /\ i <= Len(aux.f_sets)
    /\ i \notin aux.used_sets
    /\ LET set_i == aux.f_sets[i]
           remove == Members(aux.f_sets, aux.remove_sets) \cup Range(set_i)
           f_t == np_delete(f_n, remove) \o aux.f_new
           ph_t == np_delete(ph_n, remove) \o aux.ph_new
           harm_i == rfh_absorb_keep(set_i, Harmonics(f_n))
           f_i == [k \in Idx(harm_i) |-> f_n[harm_i[k]]]
       IN  /\ f_n_temp' = f_t /\ ph_n_temp' = ph_t
           /\ n_param' = rfh_n_param(n_sectors, aux.n_harm, Len(f_t) + Len(f_i))
           /\ \E raw \in [Idx(harm_i) -> RawPhases], l \in Losses :
                LET ph_i == [k \in Idx(harm_i) |-> rfh_absorb_phase(raw[k])]
                IN  /\ const_slope' = linear_pars(f_t \o f_i, ph_t \o ph_i)
                    /\ resid' = aux.dev_acc + l
                    /\ bic' = calc_bic(resid', n_param')
                    /\ IF rf_improves(bic_prev, bic')
                       THEN /\ aux' = [aux EXCEPT
                                         !.remove_sets = Append(@, i),
                                         !.used_sets = @ \cup Overlap(aux.f_sets, set_i),
                                         !.f_new = @ \o f_i,
                                         !.ph_new = @ \o ph_i,
                                         !.dev_acc = resid',
                                         !.eval_f = f_t \o f_i]
                            /\ bic_prev' = bic'
                       ELSE /\ aux' = [aux EXCEPT !.eval_f = f_t \o f_i]
                            /\ bic_prev' = bic_prev
    /\ i' = i + 1
    /\ UNCHANGED <<pc, n_sectors, f_n, ph_n>>

\* for i, set_i in enumerate(f_sets), i in used_sets: nothing to test
RFH_AbsorbSkip ==
    /\ pc = "rfh_absorb"
    /\ i <= Len(aux.f_sets)
    /\ i \in aux.used_sets
    /\ i' = i + 1
    /\ UNCHANGED <<pc, n_sectors, f_n, ph_n, f_n_temp, ph_n_temp, const_slope,
                   resid, n_param, bic, bic_prev, aux>>

\* the sweep accepted a set: while (len(remove_sets) > n_prev) goes on
RFH_AbsorbSweep ==
    /\ pc = "rfh_absorb"
    /\ i > Len(aux.f_sets)
    /\ Len(aux.remove_sets) > aux.n_prev
    /\ aux' = [aux EXCEPT !.n_prev = Len(aux.remove_sets), !.sweeps = @ + 1]
    /\ i' = 1
    /\ UNCHANGED <<pc, n_sectors, f_n, ph_n, f_n_temp, ph_n_temp, const_slope,
                   resid, n_param, bic, bic_prev>>

\* the sweep accepted nothing: replace the accepted sets, refit the trend
RFH_Return ==
    /\ pc = "rfh_absorb"
    /\ i > Len(aux.f_sets)
    /\ ~(Len(aux.remove_sets) > aux.n_prev)
    /\ f_n' = np_delete(f_n, Members(aux.f_sets, aux.remove_sets)) \o aux.f_new
    /\ ph_n' = np_delete(ph_n, Members(aux.f_sets, aux.remove_sets)) \o aux.ph_new
    /\ const_slope' = linear_pars(f_n', ph_n')
    /\ pc' = "rfh_done"
    /\ UNCHANGED <<n_sectors, f_n_temp, ph_n_temp, resid, n_param, bic,
                   bic_prev, i, aux>>

RFH_Next ==
    \/ RFH_SingleTest
    \/ RFH_SingleSkip
    \/ RFH_SingleSweep
    \/ RFH_SingleDone
    \/ RFH_SetTest
    \/ RFH_SetSkip
    \/ RFH_SetSweep
    \/ RFH_SetDone
    \/ RFH_AbsorbTest
    \/ RFH_AbsorbSkip
    \/ RFH_AbsorbSweep
    \/ RFH_Return

SpecRFH ==
    RFH_Init /\ [][RFH_Next]_vars

\* the frequencies of the input that are classified as harmonics
RFH_InputHarmonics ==
    {aux.f_in[k] : k \in Harmonics(aux.f_in)}

\* C5: every phase of the sinusoid set returned by a stage function, here
\* reduce_frequencies_harmonics, lies in the interval (-pi, pi].
C5_PhasesWithinPi ==
    pc = "rfh_done" => \A k \in Idx(ph_n) : -PI < ph_n[k] /\ ph_n[k] <= PI

\* C7: reduce_frequencies_harmonics never removes a harmonic: every harmonic
\* of the input is in the output with the same frequency, the number of
\* harmonics does not decrease, and until pass 3 starts the harmonic entries
\* keep their phase as well.
C7_HarmonicsKept ==
    /\ pc \in {"rfh_single", "rfh_sets", "rfh_absorb", "rfh_done"} =>
         /\ RFH_InputHarmonics \subseteq Range(f_n)
         /\ Cardinality(Harmonics(f_n)) >= Cardinality(Harmonics(aux.f_in))
    /\ pc \in {"rfh_single", "rfh_sets"} \/ (pc = "rfh_absorb" /\ i = 1 /\ aux.sweeps = 1) =>
         \A h \in RFH_InputHarmonics :
             \E k \in Idx(f_n) : f_n[k] = h /\ ph_n[k] = 0

\* a set that held a harmonic and a non-harmonic was replaced by the
\* harmonic alone, and the function returned
C7_Witness ==
    /\ pc = "rfh_done"
    /\ Len(aux.remove_sets) > 0
    /\ Len(f_n) < Len(aux.f_in)
    /\ RFH_InputHarmonics # {}

(***************************************************************************)
(* extract_additional_harmonics                                            *)
(***************************************************************************)
\* the Nyquist frequency f_max = 1 / (2 * min(diff(times))) on the grid
f_max ==
    38

\* sinusoid sets given to the harmonic search: harmonics are exact multiples;
\* 40 is where fix_harmonic_frequency puts a frequency of 38, below f_max,
\* that is matched to harmonic 5
EAH_Inputs ==
    {<<8>>, <<16, 13>>, <<8, 24, 15>>, <<13>>, <<13, 30>>, <<8, 40>>}

\* improvement of the deviance the data may give to an added harmonic
EAH_Gains ==
    {0, 2 * LnN + BIC_THRESHOLD + 4, 2 * LnN + BIC_THRESHOLD + 10}

\* np.arange(1, p_orb * f_max, dtype=int)
h_candidates_all ==
    [k \in 1..((f_max - 1) \div f_orb) |-> k]

\* np.delete(h_candidate, harmonic_n - 1)
h_candidates(f) ==
    np_delete(h_candidates_all, HarmonicN(f))

\* n_param_orig = 3 * len(f_n) + 2 - len(harmonics) + 1
eah_n_param_orig(f) ==
    3 * Len(f) + 2 - Cardinality(Harmonics(f)) + 1

\* variant of the test on the difference as it is
eah_accept_unrounded(bp, b) ==
    bp - b > BIC_THRESHOLD

\* if (np.round(bic_prev - bic, 2) > 2)
eah_accept(bp, b) ==
    Round2(bp - b) > BIC_THRESHOLD

\* the parameter count of a model: 2 per segment, 3 per non-harmonic,
\* 2 per harmonic, 1 for the period when there is a harmonic
TrueNParam(ns, f) ==
    LET nh == Cardinality(Harmonics(f))
    IN  2 * ns + 3 * (Len(f) - nh) + 2 * nh + (IF nh > 0 THEN 1 ELSE 0)

EAH_Init ==
    /\ pc = "eah_start"
    /\ n_sectors \in 1..MaxSectors
    /\ f_n \in EAH_Inputs
    /\ ph_n = [k \in Idx(f_n) |-> 0]
    /\ f_n_temp = <<>> /\ ph_n_temp = <<>>
    /\ const_slope = linear_pars(f_n, ph_n)
    /\ resid = 0
    /\ n_param = 0
    /\ bic = 0
    /\ bic_prev = 0
    /\ i = 1
    /\ aux = [f_in |-> f_n, dev_acc |-> resid, h_candidate |-> <<>>,
              n_param_orig |-> 0, n_accepted |-> 0, eval_f |-> <<>>]

\* if (len(harmonics) == 0): raise ValueError
EAH_Raise ==
    /\ pc = "eah_start"
    /\ Harmonics(f_n) = {}
    /\ pc' = "eah_raised"
    /\ UNCHANGED <<n_sectors, f_n, ph_n, f_n_temp, ph_n_temp, const_slope, resid,
                   n_param, bic, bic_prev, i, aux>>

\* the candidates and the BIC of the model as given; np.delete raises
\* IndexError for a position harmonic_n - 1 that is not in h_candidate
EAH_Start ==
    /\ pc = "eah_start"
    /\ Harmonics(f_n) # {}
    /\ IF \E n \in HarmonicN(f_n) : n - 1 >= Len(h_candidates_all)
       THEN /\ pc' = "eah_index_error"
            /\ UNCHANGED <<n_param, bic_prev, aux>>
       ELSE /\ n_param' = eah_n_param_orig(f_n)
            /\ bic_prev' = calc_bic(resid, n_param')
            /\ aux' = [aux EXCEPT !.h_candidate = h_candidates(f_n),
                                  !.n_param_orig = n_param',
                                  !.eval_f = f_n]
            /\ pc' = "eah_loop"
    /\ UNCHANGED <<n_sectors, f_n, ph_n, f_n_temp, ph_n_temp, const_slope, resid,
                   bic, i>>

\* variant of the test that leaves the trend of the candidate set in place
EAH_TestKeepTrend ==
    /\ pc = "eah_loop"
    /\ i <= Len(aux.h_candidate)
    /\ \E r \in RawPhases, g \in EAH_Gains :
         LET f_c == aux.h_candidate[i] * f_orb
             ph_c == WrapPhase(r)
             dev == aux.dev_acc - g
         IN  /\ f_n_temp' = Append(f_n, f_c)
             /\ ph_n_temp' = Append(ph_n, ph_c)
             /\ n_param' = aux.n_param_orig + 2 * (aux.n_accepted + 1)
             /\ bic' = calc_bic(dev, n_param')
             /\ IF eah_accept(bic_prev, bic')
                THEN /\ bic_prev' = bic'
                     /\ f_n' = f_n_temp' /\ ph_n' = ph_n_temp'
                     /\ resid' = dev
                     /\ aux' = [aux EXCEPT !.n_accepted = @ + 1,
                                           !.dev_acc = dev,
                                           !.eval_f = f_n_temp']
                ELSE /\ bic_prev' = bic_prev
                     /\ f_n' = f_n /\ ph_n' = ph_n
                     /\ resid' = aux.dev_acc
                     /\ aux' = [aux EXCEPT !.eval_f = f_n_temp']
    /\ const_slope' = linear_pars(f_n_temp', ph_n_temp')
    /\ i' = i + 1
    /\ UNCHANGED <<pc, n_sectors>>

\* for h_c in h_candidate: add the harmonic, keep it if the BIC improves by
\* more than 2, otherwise go back to the previous model
EAH_Test ==
    /\ pc = "eah_loop"
    /\ i <= Len(aux.h_candidate)
    /\ \E r \in RawPhases, g \in EAH_Gains :
         LET f_c == aux.h_candidate[i] * f_orb
             ph_c == WrapPhase(r)
             dev == aux.dev_acc - g
         IN  /\ f_n_temp' = Append(f_n, f_c)
             /\ ph_n_temp' = Append(ph_n, ph_c)
             /\ n_param' = aux.n_param_orig + 2 * (aux.n_accepted + 1)
             /\ bic' = calc_bic(dev, n_param')
             /\ IF eah_accept(bic_prev, bic')
                THEN /\ bic_prev' = bic'
                     /\ f_n' = f_n_temp' /\ ph_n' = ph_n_temp'
                     /\ resid' = dev
                     /\ aux' = [aux EXCEPT !.n_accepted = @ + 1,
                                           !.dev_acc = dev,
                                           !.eval_f = f_n_temp']
                ELSE /\ bic_prev' = bic_prev
                     /\ f_n' = f_n /\ ph_n' = ph_n
                     /\ resid' = aux.dev_acc
                     /\ aux' = [aux EXCEPT !.eval_f = f_n_temp']
    /\ const_slope' = linear_pars(f_n', ph_n')
    /\ i' = i + 1
    /\ UNCHANGED <<pc, n_sectors>>

\* the candidates are used up: return const, slope, f_n, a_n, ph_n
EAH_Return ==
    /\ pc = "eah_loop"
    /\ i > Len(aux.h_candidate)
    /\ pc' = "eah_done"
    /\ UNCHANGED <<n_sectors, f_n, ph_n, f_n_temp, ph_n_temp, const_slope, resid,
                   n_param, bic, bic_prev, i, aux>>

EAH_Next ==
    \/ EAH_Raise
    \/ EAH_Start
    \/ EAH_Test
    \/ EAH_Return

SpecEAH ==
    EAH_Init /\ [][EAH_Next]_vars

\* C10: at every BIC evaluation, here those of extract_additional_harmonics,
\* the parameter count is 2 per linear segment + 3 per non-harmonic sinusoid
\* + 2 per harmonic sinusoid + 1 for the orbital period when harmonics are
\* present, counted over the model being evaluated.
C10_ParameterCount ==
    pc = "eah_loop" => n_param = TrueNParam(n_sectors, aux.eval_f)

(***************************************************************************)
(* fix_harmonic_frequency                                                  *)
(***************************************************************************)
\* f_tolerance = min(freq_res / 2, 1 / (2 * p_orb)): a frequency is within
\* it when twice its distance is below both freq_res and f_orb
WithinTolerance(d, fo) ==
    2 * d < Min2(freq_res, fo)

\* the multiple of f_orb nearest to x, at least 1
NearestN(x, fo) ==
    LET n == (2 * x + fo) \div (2 * fo)
    IN  IF n < 1 THEN 1 ELSE n

\* every frequency within the tolerance of its nearest multiple of 1 / p_orb,
\* as pairs <<position, n>> (analysis_functions, not in src/)
find_harmonics_tolerance(f, fo) ==
    {<<k, NearestN(f[k], fo)>> : k \in {j \in Idx(f) :
        WithinTolerance(Abs(f[j] - NearestN(f[j], fo) * fo), fo)}}

\* the positions matched to harmonic number n
fhf_matched(f, fo, n) ==
    {e[1] : e \in {m \in find_harmonics_tolerance(f, fo) : m[2] = n}}

\* variant of the pass that deletes only the first match of n
fhf_lock_first(f, fo, n) ==
    Append(np_delete(f, {SetMin(fhf_matched(f, fo, n))}), n * fo)

\* one pass of the locking loop on the frequencies: what matches n is
\* deleted and n / p_orb is appended
fhf_lock_one(f, fo, n) ==
    Append(np_delete(f, fhf_matched(f, fo, n)), n * fo)

\* variant of np.unique that gives the numbers in descending order
RECURSIVE np_unique_desc(_)
np_unique_desc(S) ==
    IF S = {} THEN <<>> ELSE <<SetMax(S)>> \o np_unique_desc(S \ {SetMax(S)})

\* a set of numbers as an ascending sequence: np.unique
RECURSIVE np_unique(_)
np_unique(S) ==
    IF S = {} THEN <<>> ELSE <<SetMin(S)>> \o np_unique(S \ {SetMin(S)})

\* sinusoid sets given to the locking
FHF_Inputs ==
    {<<7, 13>>, <<9, 30, 7>>, <<13>>, <<16, 21>>, <<13, 15, 17>>,
     <<30, 13, 7>>}

\* variant of the resettling loop: every position is re-extracted
fhf_resettle_all(f) ==
    [k \in Idx(f) |-> k]

\* non_harm = np.delete(np.arange(len(f_n)), harmonics) after the locking
fhf_resettle_candidates(f) ==
    NonHarm(f)

FHF_Init ==
    /\ pc = "fhf_start"
    /\ n_sectors \in 1..MaxSectors
    /\ f_n \in FHF_Inputs
    /\ ph_n = [k \in Idx(f_n) |-> 0]
    /\ f_n_temp = <<>> /\ ph_n_temp = <<>>
    /\ const_slope = linear_pars(f_n, ph_n)
    /\ resid = 0 /\ n_param = 0 /\ bic = 0 /\ bic_prev = 0
    /\ i = 1
    /\ aux = [f_in |-> f_n, unique_n |-> <<>>, non_harm |-> <<>>, moved |-> {}]

\* variant of the guard that hands the set back instead of raising
FHF_RaiseSilent ==
    /\ pc = "fhf_start"
    /\ find_harmonics_tolerance(f_n, f_orb) = {}
    /\ pc' = "fhf_done"
    /\ UNCHANGED <<n_sectors, f_n, ph_n, f_n_temp, ph_n_temp, const_slope, resid,
                   n_param, bic, bic_prev, i, aux>>

\* if (len(harmonics) == 0): raise ValueError
FHF_Raise ==
    /\ pc = "fhf_start"
    /\ find_harmonics_tolerance(f_n, f_orb) = {}
    /\ pc' = "fhf_raised"
    /\ UNCHANGED <<n_sectors, f_n, ph_n, f_n_temp, ph_n_temp, const_slope, resid,
                   n_param, bic, bic_prev, i, aux>>

\* np.unique(harmonic_n) of the first match is what the loop goes through
FHF_Start ==
    /\ pc = "fhf_start"
    /\ find_harmonics_tolerance(f_n, f_orb) # {}
    /\ aux' = [aux EXCEPT
                 !.unique_n = np_unique({e[2] : e \in find_harmonics_tolerance(f_n, f_orb)})]
    /\ pc' = "fhf_lock"
    /\ UNCHANGED <<n_sectors, f_n, ph_n, f_n_temp, ph_n_temp, const_slope, resid,
                   n_param, bic, bic_prev, i>>

\* for n in np.unique(harmonic_n): match again, delete what matches n,
\* append n / p_orb with the phase computed at that frequency and wrapped
FHF_Lock ==
    /\ pc = "fhf_lock"
    /\ i <= Len(aux.unique_n)
    /\ LET n == aux.unique_n[i]
       IN  \E r \in RawPhases :
             /\ f_n' = fhf_lock_one(f_n, f_orb, n)
             /\ ph_n' = Append(np_delete(ph_n, fhf_matched(f_n, f_orb, n)),
                               WrapPhase(r))
    /\ const_slope' = linear_pars(f_n', ph_n')
    /\ i' = i + 1
    /\ UNCHANGED <<pc, n_sectors, f_n_temp, ph_n_temp, resid, n_param, bic,
                   bic_prev, aux>>

\* every harmonic number is done: classify with the default tolerance
FHF_LockDone ==
    /\ pc = "fhf_lock"
    /\ i > Len(aux.unique_n)
    /\ aux' = [aux EXCEPT !.non_harm = fhf_resettle_candidates(f_n)]
    /\ i' = 1
    /\ pc' = "fhf_resettle"
    /\ UNCHANGED <<n_sectors, f_n, ph_n, f_n_temp, ph_n_temp, const_slope, resid,
                   n_param, bic, bic_prev>>

\* for i in non_harm: extract it again within one freq_res of where it was
FHF_Resettle ==
    /\ pc = "fhf_resettle"
    /\ i <= Len(aux.non_harm)
    /\ LET j == aux.non_harm[i]
       IN  \E e \in extract_single(f_n[j] - freq_res, f_n[j] + freq_res) :
             /\ f_n' = [f_n EXCEPT ![j] = e[1]]
             /\ ph_n' = [ph_n EXCEPT ![j] = WrapPhase(e[2])]
             /\ aux' = [aux EXCEPT !.moved = IF e[1] # f_n[j] THEN @ \cup {j} ELSE @]
    /\ const_slope' = linear_pars(f_n', ph_n')
    /\ i' = i + 1
    /\ UNCHANGED <<pc, n_sectors, f_n_temp, ph_n_temp, resid, n_param, bic,
                   bic_prev>>

\* return const, slope, f_n, a_n, ph_n
FHF_Return ==
    /\ pc = "fhf_resettle"
    /\ i > Len(aux.non_harm)
    /\ pc' = "fhf_done"
    /\ UNCHANGED <<n_sectors, f_n, ph_n, f_n_temp, ph_n_temp, const_slope, resid,
                   n_param, bic, bic_prev, i, aux>>

FHF_Next ==
    \/ FHF_Raise
    \/ FHF_Start
    \/ FHF_Lock
    \/ FHF_LockDone
    \/ FHF_Resettle
    \/ FHF_Return

SpecFHF ==
    FHF_Init /\ [][FHF_Next]_vars

FA_Sets ==
    {<<>>, <<15>>, <<13, 21>>, <<8, 16>>, <<7, 13, 30>>}

\* orbital frequencies 1 / p_orb_3 the period search or the caller may give:
\* with freq_res = 1.5 / ptp they are 1.0, 1.5 and 2.0 cycles in the time base
FA_OrbFreqs ==
    {4, 6, f_orb}

\* np.ptp(times) / p_orb_3 < 2, with np.ptp(times) = 1.5 / freq_res
fa_ratio_below_2(fo) ==
    3 * fo < 4 * freq_res

\* np.ptp(times) / p_orb_3 < 1.1
fa_ratio_below_1_1(fo) ==
    15 * fo < 11 * freq_res

\* harmonics of the stage-2 set: find_harmonics_from_pattern(f_n_2, p_orb_3,
\* f_tol=freq_res/2)
fa_harmonics(f, fo) ==
    find_harmonics_from_pattern(f, fo, freq_res \div 2)

\* the frequencies after the locking loop went through the harmonic numbers ns
RECURSIVE fhf_lock_all(_, _, _)
fhf_lock_all(f, fo, ns) ==
    IF ns = <<>> THEN f
    ELSE fhf_lock_all(fhf_lock_one(f, fo, Head(ns)), fo, Tail(ns))

FA_Init ==
    /\ pc = "fa_1"
    /\ n_sectors = 1
    /\ f_n = <<>> /\ ph_n = <<>>
    /\ f_n_temp = <<>> /\ ph_n_temp = <<>>
    /\ const_slope = linear_pars(f_n, ph_n)
    /\ resid = 0 /\ n_param = 0 /\ bic = 0 /\ bic_prev = 0
    /\ i = 1
    /\ \E ow \in BOOLEAN, fl \in [1..4 -> BOOLEAN], fo \in FA_OrbFreqs,
          t0 \in {0, 3} :
         aux = [overwrite |-> ow, file_1 |-> fl[1], file_2 |-> fl[2],
                file_3 |-> fl[3], txt_3 |-> fl[4], f_orb_3 |-> fo,
                f_n_1 |-> <<>>, f_n_2 |-> <<>>,
                fix_called |-> FALSE, fix_harmonics |-> 0,
                times_0 |-> t0, loaded_1 |-> FALSE]

\* stage 1: load the saved result, or extract_all and save; extract_all
\* does times -= times[0] in the array frequency_analysis goes on with
FA_Stage1 ==
    /\ pc = "fa_1"
    /\ \E s \in FA_Sets :
         /\ f_n' = s
         /\ aux' = [aux EXCEPT
                      !.f_n_1 = s, !.file_1 = TRUE,
                      !.loaded_1 = aux.file_1 /\ ~aux.overwrite,
                      !.times_0 = IF aux.file_1 /\ ~aux.overwrite
                                  THEN @ ELSE @ - @]
    /\ ph_n' = [k \in Idx(f_n') |-> 0]
    /\ pc' = "fa_2"
    /\ UNCHANGED <<n_sectors, f_n_temp, ph_n_temp, const_slope, resid, n_param,
                   bic, bic_prev, i>>

\* stage 2: load the saved result, or fit the stage-1 sinusoids and save
FA_Stage2 ==
    /\ pc = "fa_2"
    /\ \E s \in FA_Sets :
         /\ (aux.file_2 /\ ~aux.overwrite) \/ Len(s) = Len(aux.f_n_1)
         /\ f_n' = s
         /\ aux' = [aux EXCEPT !.f_n_2 = s, !.file_2 = TRUE]
    /\ ph_n' = [k \in Idx(f_n') |-> 0]
    /\ pc' = "fa_3"
    /\ UNCHANGED <<n_sectors, f_n_temp, ph_n_temp, const_slope, resid, n_param,
                   bic, bic_prev, i>>

\* if (len(f_n_2) == 0): save a note and return
FA_NoFrequencies ==
    /\ pc = "fa_3"
    /\ Len(aux.f_n_2) = 0
    /\ pc' = "fa_return"
    /\ UNCHANGED <<n_sectors, f_n, ph_n, f_n_temp, ph_n_temp, const_slope, resid,
                   n_param, bic, bic_prev, i, aux>>

\* stage 3, the saved result exists: load it
FA_Load3 ==
    /\ pc = "fa_3"
    /\ Len(aux.f_n_2) > 0
    /\ aux.file_3 /\ ~aux.overwrite
    /\ \E s \in FA_Sets \ {<<>>} : f_n' = s
    /\ ph_n' = [k \in Idx(f_n') |-> 0]
    /\ pc' = "fa_4"
    /\ UNCHANGED <<n_sectors, f_n_temp, ph_n_temp, const_slope, resid, n_param,
                   bic, bic_prev, i, aux>>

\* stage 3, the note of an earlier run exists: return
FA_Skip3 ==
    /\ pc = "fa_3"
    /\ Len(aux.f_n_2) > 0
    /\ ~(aux.file_3 /\ ~aux.overwrite)
    /\ aux.txt_3 /\ ~aux.overwrite
    /\ pc' = "fa_return"
    /\ UNCHANGED <<n_sectors, f_n, ph_n, f_n_temp, ph_n_temp, const_slope, resid,
                   n_param, bic, bic_prev, i, aux>>

\* stage 3 runs
fa_stage_3_runs ==
    /\ pc = "fa_3"
    /\ Len(aux.f_n_2) > 0
    /\ ~(aux.file_3 /\ ~aux.overwrite)
    /\ ~(aux.txt_3 /\ ~aux.overwrite)

\* the time base is below 1.1 periods: save the note and return
FA_TooShort ==
    /\ fa_stage_3_runs
    /\ fa_ratio_below_2(aux.f_orb_3)
    /\ fa_ratio_below_1_1(aux.f_orb_3)
    /\ aux' = [aux EXCEPT !.txt_3 = TRUE]
    /\ pc' = "fa_return"
    /\ UNCHANGED <<n_sectors, f_n, ph_n, f_n_temp, ph_n_temp, const_slope, resid,
                   n_param, bic, bic_prev, i>>

\* elif (len(harmonics) < 2): save the note and return
FA_NotEnough ==
    /\ fa_stage_3_runs
    /\ ~fa_ratio_below_2(aux.f_orb_3)
    /\ Cardinality(fa_harmonics(aux.f_n_2, aux.f_orb_3)) < 2
    /\ aux' = [aux EXCEPT !.txt_3 = TRUE]
    /\ pc' = "fa_return"
    /\ UNCHANGED <<n_sectors, f_n, ph_n, f_n_temp, ph_n_temp, const_slope, resid,
                   n_param, bic, bic_prev, i>>

\* neither return was taken: fix_harmonic_frequency is called
fa_fix_is_called ==
    /\ fa_stage_3_runs
    /\ \/ (fa_ratio_below_2(aux.f_orb_3) /\ ~fa_ratio_below_1_1(aux.f_orb_3))
       \/ (~fa_ratio_below_2(aux.f_orb_3)
           /\ ~(Cardinality(fa_harmonics(aux.f_n_2, aux.f_orb_3)) < 2))

\* fix_harmonic_frequency finds no harmonic within its tolerance and raises
FA_FixRaises ==
    /\ fa_fix_is_called
    /\ find_harmonics_tolerance(aux.f_n_2, aux.f_orb_3) = {}
    /\ aux' = [aux EXCEPT
                 !.txt_3 = @ \/ fa_ratio_below_2(aux.f_orb_3),
                 !.fix_called = TRUE,
                 !.fix_harmonics = Cardinality(fa_harmonics(aux.f_n_2, aux.f_orb_3))]
    /\ pc' = "fa_raised"
    /\ UNCHANGED <<n_sectors, f_n, ph_n, f_n_temp, ph_n_temp, const_slope, resid,
                   n_param, bic, bic_prev, i>>

\* fix_harmonic_frequency locks the harmonics; the result is saved
FA_Fix ==
    /\ fa_fix_is_called
    /\ find_harmonics_tolerance(aux.f_n_2, aux.f_orb_3) # {}
    /\ f_n' = fhf_lock_all(aux.f_n_2, aux.f_orb_3,
                 np_unique({e[2] : e \in find_harmonics_tolerance(aux.f_n_2, aux.f_orb_3)}))
    /\ ph_n' = [k \in Idx(f_n') |-> 0]
    /\ aux' = [aux EXCEPT
                 !.txt_3 = @ \/ fa_ratio_below_2(aux.f_orb_3),
                 !.file_3 = TRUE,
                 !.fix_called = TRUE,
                 !.fix_harmonics = Cardinality(fa_harmonics(aux.f_n_2, aux.f_orb_3))]
    /\ pc' = "fa_4"
    /\ UNCHANGED <<n_sectors, f_n_temp, ph_n_temp, const_slope, resid, n_param,
                   bic, bic_prev, i>>

FA_Next ==
    \/ FA_Stage1
    \/ FA_Stage2
    \/ FA_NoFrequencies
    \/ FA_Load3
    \/ FA_Skip3
    \/ FA_TooShort
    \/ FA_NotEnough
    \/ FA_FixRaises
    \/ FA_Fix

SpecFA ==
    FA_Init /\ [][FA_Next]_vars

\* C4: fix_harmonic_frequency is called only when at least 2 frequencies of
\* the stage-2 set were matched as harmonics of the chosen period.
C4_FixOnlyWithTwoHarmonics ==
    aux.fix_called => aux.fix_harmonics >= 2

(***************************************************************************)
(* extract_single_harmonics and refine_subset_harmonics                    *)
(***************************************************************************)
\* positions classified as harmonics of the orbital frequency fo with the
\* default tolerance
HarmonicsAt(f, fo) ==
    {e[1] : e \in find_harmonics_from_pattern(f, fo, F_TIGHT)}

\* mask = (freqs % (1/p_orb) > avoid/2) & (freqs % (1/p_orb) < 1/p_orb - avoid/2)
\* with avoid = freq_res / (ptp / p_orb) = 2 freq_res^2 / (3 f_orb)
esh_unmasked(f, fo) ==
    /\ 3 * fo * (f % fo) > freq_res * freq_res
    /\ 3 * fo * (fo - (f % fo)) > freq_res * freq_res

\* the frequencies of the coarse grid left by the mask
esh_masked_grid(fo) ==
    {f \in Peaks : esh_unmasked(f, fo)}

\* extract_single_harmonics(times, resid, p_orb): (0, 0, 0) when the mask
\* leaves nothing, else the highest unmasked peak with its phase wrapped
extract_single_harmonics(fo) ==
    IF esh_masked_grid(fo) = {} THEN {<<0, 0>>}
    ELSE {<<f, WrapPhase(r)>> : f \in esh_masked_grid(fo), r \in RawPhases}

\* the passes of refine_subset_harmonics over close_f: a harmonic keeps its
\* frequency and gets the phase as computed, the others are re-extracted
RECURSIVE RefineEntriesH(_, _, _, _)
RefineEntriesH(close, f, ph, H) ==
    IF close = {} THEN {<<f, ph>>}
    ELSE LET j == CHOOSE k \in close : \A m \in close : k <= m
             rest == RefineEntriesH(close \ {j}, f, ph, H)
         IN  UNION {
               {<<[r[1] EXCEPT ![j] = e[1]], [r[2] EXCEPT ![j] = e[2]]>> :
                    e \in IF j \in H
                          THEN {<<r[1][j], p>> : p \in RawPhases}
                          ELSE extract_single(r[1][j] - freq_res, r[1][j] + freq_res)}
               : r \in rest}

\* refine_subset_harmonics as seen by its caller: the input is kept, or the
\* entries at close_f are renewed
refine_subset_harmonics(close_f, f, ph, fo) ==
    {<<f, ph>>} \cup RefineEntriesH(close_f, f, ph, HarmonicsAt(f, fo))

(***************************************************************************)
(* extract_additional_frequencies                                          *)
(***************************************************************************)
\* sinusoid sets and orbital frequencies given to the extraction
EAF_Inputs ==
    {[f |-> <<>>, fo |-> f_orb], [f |-> <<8>>, fo |-> f_orb],
     [f |-> <<16, 13>>, fo |-> f_orb], [f |-> <<10>>, fo |-> 5]}

\* deviance gains the data may give to the model of one pass: a candidate of
\* amplitude 0 changes nothing by itself, but the pass also fits the trend
\* again and may have refined the close frequencies
eaf_gains(e, other_change) ==
    IF e = <<0, 0>> /\ ~other_change THEN {0} ELSE Gains

\* 2 * n_sectors + 1 + 2 * n_harmonics + 3 * (len(f_n_temp) - n_harmonics)
eaf_n_param(ns, n_harm, n_all) ==
    2 * ns + 1 + 2 * n_harm + 3 * (n_all - n_harm)

\* the call: times is the caller's array, whose first timestamp is times_0;
\* times_given keeps the value it had when the call was made; trend_fitted
\* says whether the given const and slope are the least-squares trend of the
\* signal minus the given sinusoids
EAF_Init ==
    /\ pc = "eaf_start"
    /\ n_sectors \in 1..MaxSectors
    /\ \E inp \in EAF_Inputs, t0 \in {0, 3}, tf \in BOOLEAN :
         /\ f_n = inp.f
         /\ aux = [fo |-> inp.fo, f_in |-> inp.f,
                   n_harmonics |-> Cardinality(HarmonicsAt(inp.f, inp.fo)),
                   dev_n |-> 0, snap_f |-> inp.f, f_1 |-> <<>>, close_f |-> {},
                   times_0 |-> t0, times_given |-> t0, trend_fitted |-> tf]
    /\ ph_n = [k \in Idx(f_n) |-> 0]
    /\ f_n_temp = f_n /\ ph_n_temp = ph_n
    /\ const_slope = linear_pars(f_n, ph_n)
    /\ resid = 0
    /\ n_param = eaf_n_param(n_sectors, aux.n_harmonics, Len(f_n))
    /\ bic_prev = Inf
    /\ bic = calc_bic(resid, n_param)
    /\ i = 0

\* times -= times[0]: the subtraction is done in the array that was passed
EAF_Start ==
    /\ pc = "eaf_start"
    /\ aux' = [aux EXCEPT !.times_0 = aux.times_0 - aux.times_0]
    /\ pc' = "eaf_loop"
    /\ UNCHANGED <<n_sectors, f_n, ph_n, f_n_temp, ph_n_temp, const_slope,
                   resid, n_param, bic, bic_prev, i>>

\* one pass of the while loop
EAF_Iterate ==
    /\ pc = "eaf_loop"
    /\ ea_continue(bic_prev, bic)
    /\ Len(f_n_temp) < MaxSin
    /\ f_n' = f_n_temp /\ ph_n' = ph_n_temp
    /\ bic_prev' = bic
    /\ \E e \in extract_single_harmonics(aux.fo) :
         LET f1 == Append(f_n_temp, e[1])
             ph1 == Append(ph_n_temp, e[2])
             close_f == f_within_rayleigh(i, f1, freq_res)
             outs == IF i > 0 /\ Cardinality(close_f) > 1
                     THEN refine_subset_harmonics(close_f, f1, ph1, aux.fo)
                     ELSE {<<f1, ph1>>}
         IN  /\ \E r \in outs :
                  /\ f_n_temp' = r[1] /\ ph_n_temp' = r[2]
                  /\ const_slope' = linear_pars(r[1], r[2])
             /\ aux' = [aux EXCEPT !.dev_n = resid, !.snap_f = f_n_temp,
                                   !.f_1 = f1, !.close_f = close_f]
             /\ n_param' = eaf_n_param(n_sectors, aux.n_harmonics, Len(f1))
             /\ \E g \in eaf_gains(e, (i = 0 /\ ~aux.trend_fitted)
                                       \/ (i > 0 /\ Cardinality(close_f) > 1)) :
                  /\ resid' = resid - g
                  /\ bic' = calc_bic(resid', n_param')
                  /\ Len(f1) = MaxSin => ~ea_continue(bic_prev', bic')
    /\ i' = i + 1
    /\ UNCHANGED <<pc, n_sectors>>

\* loop exit: the trend is redone for the accepted set, which is returned
EAF_Return ==
    /\ pc = "eaf_loop"
    /\ ~ea_continue(bic_prev, bic)
    /\ const_slope' = linear_pars(f_n, ph_n)
    /\ pc' = "eaf_done"
    /\ UNCHANGED <<n_sectors, f_n, ph_n, f_n_temp, ph_n_temp, resid, n_param,
                   bic, bic_prev, i, aux>>

EAF_Next ==
    \/ EAF_Start
    \/ EAF_Iterate
    \/ EAF_Return

SpecEAF ==
    EAF_Init /\ [][EAF_Next]_vars

\* C11: in every iteration of extract_additional_frequencies the group of
\* close frequencies is the Rayleigh chain around the newest candidate, the
\* last entry of the candidate arrays.
C11_ChainAroundNewest ==
    (pc = "eaf_loop" /\ i > 0) =>
        aux.close_f = f_within_rayleigh(Len(aux.f_1) - 1, aux.f_1, freq_res)

\* C12: every accept/reject decision compares the BIC difference rounded to
\* two decimals against its threshold; for the loop of extract_all the
\* decision taken equals the decision on the rounded difference.
C12_DecisionOnRoundedDifference ==
    pc = "ea_loop" =>
        (ea_continue(bic_prev, bic) <=> Round2(bic_prev - bic) > BIC_THRESHOLD)

\* C13: extract_additional_frequencies leaves the time array of its caller
\* as it was given.
C13_CallerTimesUnchanged ==
    aux.times_0 = aux.times_given

(***************************************************************************)
(* The two functions that require harmonics in their input                 *)
(***************************************************************************)
\* a call of fix_harmonic_frequency or of extract_additional_harmonics
HarmonicCall_Init ==
    FHF_Init \/ EAH_Init

HarmonicCall_Next ==
    \/ FHF_Next
    \/ EAH_Next

SpecHarmonicCall ==
    HarmonicCall_Init /\ [][HarmonicCall_Next]_vars

\* C14: fix_harmonic_frequency and extract_additional_harmonics raise when
\* no frequency of the input is matched as a harmonic, and a call that got
\* past its first statement or returned had at least one harmonic.
C14_RaiseWithoutHarmonics ==
    /\ pc \in {"fhf_lock", "fhf_resettle", "fhf_done"} =>
            find_harmonics_tolerance(aux.f_in, f_orb) # {}
    /\ pc = "fhf_raised" => find_harmonics_tolerance(aux.f_in, f_orb) = {}
    /\ pc \in {"eah_loop", "eah_done"} => Harmonics(aux.f_in) # {}
    /\ pc = "eah_raised" => Harmonics(aux.f_in) = {}

C14_Witness ==
    \/ pc = "fhf_raised" /\ find_harmonics_tolerance(aux.f_in, f_orb) = {}
    \/ pc = "eah_raised" /\ Harmonics(aux.f_in) = {}

C16_Candidates ==
    pc \in {"eah_loop", "eah_done"} =>
        aux.h_candidate =
            np_unique({h \in 1..f_max : h * f_orb < f_max} \ HarmonicN(aux.f_in))

\* one test: the candidate in turn is evaluated with 2 more parameters than
\* the accepted set; a rejection leaves the accepted set and the reference
\* BIC as they were, an acceptance makes the tested model the accepted one
C16_TestInTurn ==
    (pc = "eah_loop" /\ i' = i + 1) =>
        /\ f_n_temp' = Append(f_n, aux.h_candidate[i] * f_orb)
        /\ n_param' = (aux.n_param_orig + 2 * aux.n_accepted) + 2
        /\ \/ f_n' = f_n_temp' /\ ph_n' = ph_n_temp' /\ bic_prev' = bic'
           \/ f_n' = f_n /\ ph_n' = ph_n /\ bic_prev' = bic_prev

Loop_BICs ==
    {0, 4, 5, 10, 20, 2000, 2005, 2010, 4011, 4020, 6030}

\* while (bic_prev - bic > 2) in the extraction loops,
\* while (np.round(bic_prev - bic, 2) > 0) in the refinement loops
loop_continue(kind, bp, b) ==
    IF kind = "extract" THEN ea_continue(bp, b) ELSE rf_improves(bp, b)

\* before the loop: bic_prev = np.inf, bic of the model as given
Loop_Init ==
    /\ pc = "loop"
    /\ n_sectors \in 1..MaxSectors
    /\ f_n = <<>> /\ ph_n = <<>> /\ f_n_temp = <<>> /\ ph_n_temp = <<>>
    /\ const_slope = linear_pars(f_n, ph_n)
    /\ resid = 0 /\ n_param = 0 /\ i = 0
    /\ bic_prev = Inf
    /\ bic \in Loop_BICs
    /\ \E kind \in {"extract", "refine"} :
         aux = [kind |-> kind, bic_0 |-> bic]

\* one pass of the body: bic_prev = bic, then the BIC of the new model
Loop_Iterate ==
    /\ pc = "loop"
    /\ loop_continue(aux.kind, bic_prev, bic)
    /\ bic_prev' = bic
    /\ bic' \in Loop_BICs
    /\ UNCHANGED <<pc, n_sectors, f_n, ph_n, f_n_temp, ph_n_temp, const_slope,
                   resid, n_param, i, aux>>

\* the condition is false: the statements after the loop
Loop_Exit ==
    /\ pc = "loop"
    /\ ~loop_continue(aux.kind, bic_prev, bic)
    /\ pc' = "loop_done"
    /\ UNCHANGED <<n_sectors, f_n, ph_n, f_n_temp, ph_n_temp, const_slope,
                   resid, n_param, bic, bic_prev, i, aux>>

Loop_Next ==
    \/ Loop_Iterate
    \/ Loop_Exit

SpecLoop ==
    Loop_Init /\ [][Loop_Next]_vars

\* the interpreter always executes the next statement
LiveLoop ==
    SpecLoop /\ WF_vars(Loop_Next)

\* C17: each BIC-gated loop terminates: over BIC values bounded below every
\* run reaches the loop exit.
C17_LoopTerminates ==
    <>(pc = "loop_done")

\* a loop left after more than one pass
C17_Witness ==
    pc = "loop_done" /\ bic_prev < aux.bic_0

(***************************************************************************)
(* frequency_analysis, stages 8 and 9                                      *)
(***************************************************************************)
\* results of stage 7, and what a saved result of an earlier run may hold
FA_Sets_7 ==
    {<<8>>, <<8, 13>>, <<8, 13, 15>>, <<16, 13, 30>>}

\* what reduce_frequencies_harmonics can return for f: f itself, or f
\* without some of its non-harmonics, possibly with one merged sinusoid
\* in the place of two or more
fa_reduce_results(f) ==
    {np_delete(f, R) : R \in SUBSET (Idx(f) \ Harmonics(f))}
    \cup {Append(np_delete(f, R), e) :
             R \in {Q \in SUBSET (Idx(f) \ Harmonics(f)) : Cardinality(Q) > 1},
             e \in {13, 30}}

\* fit_multi_sinusoid_harmonics_per_group (tsfit, not in src/): the same
\* number of sinusoids, harmonics kept on multiples of the orbital
\* frequency, the other frequencies free to move
fa_fit_results(f) ==
    {[k \in Idx(f) |-> IF k \in Harmonics(f) THEN f[k] ELSE f[k] + d] : d \in {0, 1}}

\* variant of the stage 9 condition that also fits an unreduced set
fa_fit_9_runs_also_equal(f7, f8) ==
    Len(f7) >= Len(f8)

\* if (len(f_n_7) > len(f_n_8))
fa_fit_9_runs(f7, f8) ==
    Len(f7) > Len(f8)

\* the state after stage 7
FA9_Init ==
    /\ pc = "fa_8"
    /\ n_sectors \in 1..MaxSectors
    /\ f_n \in FA_Sets_7
    /\ ph_n = [k \in Idx(f_n) |-> 0]
    /\ f_n_temp = <<>> /\ ph_n_temp = <<>>
    /\ const_slope = linear_pars(f_n, ph_n)
    /\ resid = 0 /\ n_param = 0 /\ bic = 0 /\ bic_prev = 0 /\ i = 0
    /\ \E ow \in BOOLEAN, f8 \in BOOLEAN, f9 \in BOOLEAN :
         aux = [overwrite |-> ow, file_8 |-> f8, file_9 |-> f9,
                f_n_7 |-> f_n, f_n_8 |-> <<>>, f_n_9 |-> <<>>,
                reduced_8 |-> FALSE, loaded_9 |-> FALSE, fit_9 |-> FALSE]

\* stage 8, a saved result exists and is not to be overwritten
FA9_Load8 ==
    /\ pc = "fa_8"
    /\ aux.file_8 /\ ~aux.overwrite
    /\ \E f \in UNION {fa_reduce_results(g) : g \in FA_Sets_7} :
         aux' = [aux EXCEPT !.f_n_8 = f]
    /\ pc' = "fa_9"
    /\ UNCHANGED <<n_sectors, f_n, ph_n, f_n_temp, ph_n_temp, const_slope,
                   resid, n_param, bic, bic_prev, i>>

\* stage 8: reduce_frequencies_harmonics on the result of stage 7, saved
FA9_Reduce8 ==
    /\ pc = "fa_8"
    /\ ~(aux.file_8 /\ ~aux.overwrite)
    /\ \E f \in fa_reduce_results(aux.f_n_7) :
         aux' = [aux EXCEPT !.f_n_8 = f, !.file_8 = TRUE,
                            !.reduced_8 = Len(f) < Len(aux.f_n_7)]
    /\ pc' = "fa_9"
    /\ UNCHANGED <<n_sectors, f_n, ph_n, f_n_temp, ph_n_temp, const_slope,
                   resid, n_param, bic, bic_prev, i>>

\* stage 9, a saved result exists and is not to be overwritten
FA9_Load9 ==
    /\ pc = "fa_9"
    /\ aux.file_9 /\ ~aux.overwrite
    /\ \E g \in FA_Sets_7 : \E f \in fa_fit_results(g) :
         aux' = [aux EXCEPT !.f_n_9 = f, !.loaded_9 = TRUE]
    /\ pc' = "fa_done"
    /\ UNCHANGED <<n_sectors, f_n, ph_n, f_n_temp, ph_n_temp, const_slope,
                   resid, n_param, bic, bic_prev, i>>

\* stage 9: the fit on the reduced set, saved
FA9_Fit9 ==
    /\ pc = "fa_9"
    /\ ~(aux.file_9 /\ ~aux.overwrite)
    /\ fa_fit_9_runs(aux.f_n_7, aux.f_n_8)
    /\ \E f \in fa_fit_results(aux.f_n_8) :
         aux' = [aux EXCEPT !.f_n_9 = f, !.fit_9 = TRUE, !.file_9 = TRUE]
    /\ pc' = "fa_done"
    /\ UNCHANGED <<n_sectors, f_n, ph_n, f_n_temp, ph_n_temp, const_slope,
                   resid, n_param, bic, bic_prev, i>>

\* stage 9 without a fit: the result of stage 7 is taken over, saved
FA9_Skip9 ==
    /\ pc = "fa_9"
    /\ ~(aux.file_9 /\ ~aux.overwrite)
    /\ ~fa_fit_9_runs(aux.f_n_7, aux.f_n_8)
    /\ aux' = [aux EXCEPT !.f_n_9 = aux.f_n_7, !.file_9 = TRUE]
    /\ pc' = "fa_done"
    /\ UNCHANGED <<n_sectors, f_n, ph_n, f_n_temp, ph_n_temp, const_slope,
                   resid, n_param, bic, bic_prev, i>>

FA9_Next ==
    \/ FA9_Load8
    \/ FA9_Reduce8
    \/ FA9_Load9
    \/ FA9_Fit9
    \/ FA9_Skip9

SpecFA9 ==
    FA9_Init /\ [][FA9_Next]_vars

\* C18 as stated: in frequency_analysis the final fit of stage 9 is executed
\* exactly when stage 8 returned fewer sinusoids than it was given, and when
\* it is not executed the result of stage 9 is the result of stage 7.
C18_FitIffReduced ==
    pc = "fa_done" =>
        /\ aux.fit_9 <=> Len(aux.f_n_8) < Len(aux.f_n_7)
        /\ ~aux.fit_9 => aux.f_n_9 = aux.f_n_7

\* C18 as amended: the same in a run that does not load a saved stage 9
\* result; a run that loads one executes no fit.
C18_FitIffReducedUnlessLoaded ==
    pc = "fa_done" =>
        /\ aux.loaded_9 => ~aux.fit_9
        /\ ~aux.loaded_9 =>
              /\ aux.fit_9 <=> Len(aux.f_n_8) < Len(aux.f_n_7)
              /\ ~aux.fit_9 => aux.f_n_9 = aux.f_n_7

\* a run in which stage 8 removed a sinusoid and stage 9 did the fit
C18_Witness ==
    /\ pc = "fa_done"
    /\ aux.reduced_8 /\ aux.fit_9
    /\ Len(aux.f_n_9) < Len(aux.f_n_7)

(***************************************************************************)
(* extract_single_harmonics, statement by statement                        *)
(***************************************************************************)
\* freqs[mask] of the coarse periodogram over [f0, fn]; f0 = fn = 0 stands
\* for the whole range
esh_coarse(fo, f0, fn) ==
    {f \in esh_masked_grid(fo) : fn = 0 \/ (f0 <= f /\ f <= fn)}

\* orbital frequencies and windows the extraction is called with
ESH_Calls ==
    {[fo |-> o, f0 |-> w[1], fn |-> w[2]] :
        o \in {4, 5, 6, f_orb}, w \in {<<0, 0>>, <<10, 20>>, <<14, 20>>}}

ESH_Init ==
    /\ pc = "esh_coarse"
    /\ n_sectors \in 1..MaxSectors
    /\ f_n = <<>> /\ ph_n = <<>> /\ f_n_temp = <<>> /\ ph_n_temp = <<>>
    /\ const_slope = linear_pars(f_n, ph_n)
    /\ resid = 0 /\ n_param = 0 /\ bic = 0 /\ bic_prev = 0 /\ i = 0
    /\ \E call \in ESH_Calls :
         aux = [fo |-> call.fo, f0 |-> call.f0, fn |-> call.fn,
                f_c |-> 0, fine |-> <<>>, n_refine |-> 0, n_phase |-> 0,
                result |-> <<>>]

\* variant of the early return that comes after a phase evaluation
ESH_ReturnZeroLate ==
    /\ pc = "esh_coarse"
    /\ esh_coarse(aux.fo, aux.f0, aux.fn) = {}
    /\ aux' = [aux EXCEPT !.result = <<0, 0>>, !.n_phase = @ + 1]
    /\ pc' = "esh_done"
    /\ UNCHANGED <<n_sectors, f_n, ph_n, f_n_temp, ph_n_temp, const_slope,
                   resid, n_param, bic, bic_prev, i>>

\* if (len_m == 0): return 0, 0, 0
ESH_ReturnZero ==
    /\ pc = "esh_coarse"
    /\ esh_coarse(aux.fo, aux.f0, aux.fn) = {}
    /\ aux' = [aux EXCEPT !.result = <<0, 0>>]
    /\ pc' = "esh_done"
    /\ UNCHANGED <<n_sectors, f_n, ph_n, f_n_temp, ph_n_temp, const_slope,
                   resid, n_param, bic, bic_prev, i>>

\* p1 = np.argmax(ampls[mask])
ESH_Coarse ==
    /\ pc = "esh_coarse"
    /\ \E f \in esh_coarse(aux.fo, aux.f0, aux.fn) :
         aux' = [aux EXCEPT !.f_c = f]
    /\ pc' = "esh_refine"
    /\ UNCHANGED <<n_sectors, f_n, ph_n, f_n_temp, ph_n_temp, const_slope,
                   resid, n_param, bic, bic_prev, i>>

\* the two refinements, each a periodogram 100 times finer around the peak
\* of the one before: the peak moves by less than a step of the one before
ESH_Refine ==
    /\ pc = "esh_refine"
    /\ aux.n_refine < 2
    /\ \E d \in {-1, 0, 1} :
         aux' = [aux EXCEPT !.fine = Append(@, d), !.n_refine = @ + 1]
    /\ UNCHANGED <<pc, n_sectors, f_n, ph_n, f_n_temp, ph_n_temp, const_slope,
                   resid, n_param, bic, bic_prev, i>>

\* the phase at the final frequency, wrapped, and the return
ESH_Phase ==
    /\ pc = "esh_refine"
    /\ aux.n_refine = 2
    /\ \E r \in RawPhases :
         aux' = [aux EXCEPT !.result = <<aux.f_c, WrapPhase(r)>>, !.n_phase = @ + 1]
    /\ pc' = "esh_done"
    /\ UNCHANGED <<n_sectors, f_n, ph_n, f_n_temp, ph_n_temp, const_slope,
                   resid, n_param, bic, bic_prev, i>>

ESH_Next ==
    \/ ESH_ReturnZero
    \/ ESH_Coarse
    \/ ESH_Refine
    \/ ESH_Phase

SpecESH ==
    ESH_Init /\ [][ESH_Next]_vars

\* C19: whenever the mask excludes every frequency of the coarse grid,
\* extract_single_harmonics returns (0, 0, 0) and has done no refinement
\* and no phase evaluation; no other statement is reached.
C19_SentinelWithoutRefinement ==
    esh_coarse(aux.fo, aux.f0, aux.fn) = {} =>
        /\ pc \in {"esh_coarse", "esh_done"}
        /\ aux.n_refine = 0 /\ aux.n_phase = 0
        /\ pc = "esh_done" => aux.result = <<0, 0>>

C19_Witness ==
    /\ pc = "esh_done"
    /\ esh_coarse(aux.fo, aux.f0, aux.fn) = {}
    /\ aux.result = <<0, 0>>

(***************************************************************************)
(* utility.group_frequencies_for_fit                                       *)
(***************************************************************************)
\* largest number of amplitudes given to the grouping
MaxAmpl ==
    5

\* np.argsort(a_n)[::-1]: the positions by descending amplitude
gff_argsort(a_n) ==
    LET up == SortedIdx(a_n, Idx(a_n))
    IN  [k \in Idx(a_n) |-> up[Len(a_n) + 1 - k]]

\* the position in not_used after which the amplitude drops most, among
\* not_used[g_min : g_max + 1]; the first of them when several do
gff_i_group_wide(a_n, not_used, g_min, g_max) ==
    LET hi == Min2(Len(not_used), g_max + 1)
        drop(p) == a_n[not_used[p + 1]] - a_n[not_used[p]]
        best == SetMin({p \in (g_min + 1)..(hi - 1) :
                           \A q \in (g_min + 1)..(hi - 1) : drop(p) <= drop(q)})
    IN  best + 1

\* a_diff = np.diff(a_n[not_used[g_min:g_max + 1]]); i_max = np.argmin(a_diff);
\* i_group = g_min + i_max + 1
gff_i_group(a_n, not_used, g_min, g_max) ==
    LET hi == Min2(Len(not_used), g_max + 1)
        drop(p) == a_n[not_used[p + 1]] - a_n[not_used[p]]
        best == SetMin({p \in (g_min + 1)..(hi - 1) :
                           \A q \in (g_min + 1)..(hi - 1) : drop(p) <= drop(q)})
    IN  best

\* the call: amplitudes and group sizes with g_min < g_max
GFF_Init ==
    /\ pc = "gff_loop"
    /\ n_sectors \in 1..MaxSectors
    /\ f_n = <<>> /\ ph_n = <<>> /\ f_n_temp = <<>> /\ ph_n_temp = <<>>
    /\ const_slope = linear_pars(f_n, ph_n)
    /\ resid = 0 /\ n_param = 0 /\ bic = 0 /\ bic_prev = 0 /\ i = 0
    /\ \E n \in 0..MaxAmpl, g \in {<<1, 2>>, <<1, 3>>, <<2, 3>>} :
         \E a_n \in [1..n -> 1..3] :
            aux = [a_n |-> a_n, g_min |-> g[1], g_max |-> g[2],
                   not_used |-> gff_argsort(a_n), groups |-> <<>>]

\* variant of the cut that leaves the last member of the group in not_used
GFF_CutKeepLast ==
    /\ pc = "gff_loop"
    /\ Len(aux.not_used) > 0
    /\ Len(aux.not_used) > aux.g_min + 1
    /\ LET i_group == gff_i_group(aux.a_n, aux.not_used, aux.g_min, aux.g_max)
       IN  aux' = [aux EXCEPT
                     !.groups = Append(@, SubSeq(aux.not_used, 1, i_group)),
                     !.not_used = SubSeq(@, i_group, Len(@))]
    /\ UNCHANGED <<pc, n_sectors, f_n, ph_n, f_n_temp, ph_n_temp, const_slope,
                   resid, n_param, bic, bic_prev, i>>

\* len(not_used) > g_min + 1: the group ends at the largest drop
GFF_Cut ==
    /\ pc = "gff_loop"
    /\ Len(aux.not_used) > 0
    /\ Len(aux.not_used) > aux.g_min + 1
    /\ LET i_group == gff_i_group(aux.a_n, aux.not_used, aux.g_min, aux.g_max)
       IN  aux' = [aux EXCEPT
                     !.groups = Append(@, SubSeq(aux.not_used, 1, i_group)),
                     !.not_used = SubSeq(@, i_group + 1, Len(@))]
    /\ UNCHANGED <<pc, n_sectors, f_n, ph_n, f_n_temp, ph_n_temp, const_slope,
                   resid, n_param, bic, bic_prev, i>>

\* else: what is left is one group
GFF_Rest ==
    /\ pc = "gff_loop"
    /\ Len(aux.not_used) > 0
    /\ ~(Len(aux.not_used) > aux.g_min + 1)
    /\ aux' = [aux EXCEPT !.groups = Append(@, aux.not_used),
                          !.not_used = <<>>]
    /\ UNCHANGED <<pc, n_sectors, f_n, ph_n, f_n_temp, ph_n_temp, const_slope,
                   resid, n_param, bic, bic_prev, i>>

\* return groups
GFF_Return ==
    /\ pc = "gff_loop"
    /\ Len(aux.not_used) = 0
    /\ pc' = "gff_done"
    /\ UNCHANGED <<n_sectors, f_n, ph_n, f_n_temp, ph_n_temp, const_slope,
                   resid, n_param, bic, bic_prev, i, aux>>

GFF_Next ==
    \/ GFF_Cut
    \/ GFF_Rest
    \/ GFF_Return

SpecGFF ==
    GFF_Init /\ [][GFF_Next]_vars

C21_AcceptedSetsDisjoint ==
    pc \in {"rf_sets", "rf_done"} =>
        /\ \A a, b \in Idx(aux.remove_sets) :
              a # b => /\ aux.remove_sets[a] # aux.remove_sets[b]
                       /\ Range(aux.f_sets[aux.remove_sets[a]])
                            \cap Range(aux.f_sets[aux.remove_sets[b]]) = {}
        /\ \A k \in Idx(aux.f_sets) :
              Range(aux.f_sets[k]) \cap Members(aux.f_sets, aux.remove_sets) # {}
                  => k \in aux.used_sets
        /\ pc = "rf_done" =>
              Len(f_n) = Len(aux.f_in) - Cardinality(aux.remove_single)
                         - Cardinality(Members(aux.f_sets, aux.remove_sets))
                         + Len(aux.remove_sets)

\* a set was accepted while other candidates shared a member with it
C21_Witness ==
    /\ pc = "rf_done"
    /\ Len(aux.remove_sets) > 0
    /\ Cardinality(aux.used_sets) > Len(aux.remove_sets)

\* the interpreter always executes the next statement of reduce_frequencies
LiveRF ==
    SpecRF /\ WF_vars(RF_Next)

\* C22: the cluster-merge pass terminates after at most |f_sets| + 1 sweeps:
\* a further sweep follows only a sweep that accepted a new set, no set is
\* accepted twice, and the function returns.
C22_MergeSweepsBounded ==
    /\ [](pc \in {"rf_sets", "rf_done"} =>
            /\ aux.sweeps <= Len(aux.remove_sets) + 1
            /\ Len(aux.remove_sets) <= Len(aux.f_sets)
            /\ aux.sweeps <= Len(aux.f_sets) + 1)
    /\ <>(pc = "rf_done")

\* a pass that needed a second sweep
C22_Witness ==
    pc = "rf_done" /\ aux.sweeps > 1 /\ Len(aux.f_sets) > 0

\* C23: the single-removal pass of reduce_frequencies ends only after a
\* complete sweep that marked nothing: at the exit every frequency that is
\* not marked was tested against the accepted BIC and did not improve it;
\* the pass has at most n + 1 sweeps and a marked frequency stays marked.
C23_SingleRemovalFixedPoint ==
    /\ [](pc \in {"rf_sets", "rf_done"} =>
            aux.rejected = Idx(aux.f_in) \ aux.remove_single)
    /\ [](pc = "rf_single" =>
            /\ aux.sweeps <= Cardinality(aux.remove_single) + 1
            /\ aux.sweeps <= Len(aux.f_in) + 1)
    /\ [][aux.remove_single \subseteq aux'.remove_single]_vars

\* a pass that marked a frequency and ended with others left
C23_Witness ==
    /\ pc = "rf_sets"
    /\ aux.remove_single # {}
    /\ aux.rejected # {}

\* C24: in frequency_analysis the time array of the stages after stage 1 is
\* the same whether stage 1 was computed or loaded: its first timestamp is
\* 0, as extract_all leaves it.
C24_SameTimeReference ==
    pc # "fa_1" => aux.times_0 = 0

\* C25: every frequency in the set returned by extract_additional_frequencies
\* is above 0 when every given frequency is: the (0, 0, 0) of the extractor
\* is never part of the accepted set.
C25_ReturnedFrequenciesPositive ==
    pc = "eaf_done" => \A k \in Idx(f_n) : f_n[k] > 0

(***************************************************************************)
(* refine_subset and refine_subset_harmonics, pass by pass                 *)
(***************************************************************************)
\* largest number of passes of the refining loop
MaxPass ==
    2

\* calls: a sinusoid set, the chain close_f (1-based positions) and whether
\* the harmonic-aware routine is the one called
RS_Inputs ==
    {[f |-> <<13, 16>>, close |-> {1, 2}],
     [f |-> <<8, 13, 30>>, close |-> {1, 2}],
     [f |-> <<30, 16, 13>>, close |-> {2, 3}]}

RS_Init ==
    /\ pc = "rs_loop"
    /\ n_sectors = 1
    /\ \E c \in RS_Inputs, p \in RawPhases, h \in BOOLEAN :
         /\ f_n = c.f
         /\ ph_n = [k \in Idx(c.f) |-> WrapPhase(p)]
         /\ aux = [f_in |-> f_n, ph_in |-> ph_n, close_f |-> c.close,
                   harmonics |-> IF h THEN HarmonicsAt(c.f, f_orb) ELSE {},
                   last_f |-> f_n, last_ph |-> ph_n]
    /\ f_n_temp = f_n /\ ph_n_temp = ph_n
    /\ const_slope = linear_pars(f_n, ph_n)
    /\ resid = 0
    /\ n_param = 2 * n_sectors + 3 * Len(f_n)
    /\ bic_prev = Inf
    /\ bic = calc_bic(resid, n_param)
    /\ i = 0

\* variant of the return that hands back the last tested set
RS_ReturnLast ==
    /\ pc = "rs_loop"
    /\ ~rf_improves(bic_prev, bic)
    /\ pc' = "rs_done"
    /\ f_n' = f_n_temp /\ ph_n' = ph_n_temp
    /\ const_slope' = linear_pars(f_n', ph_n')
    /\ UNCHANGED <<n_sectors, f_n_temp, ph_n_temp, resid, n_param, bic,
                   bic_prev, i, aux>>

\* one pass of the while loop: the last set is accepted, every entry of
\* close_f is re-extracted in turn and the BIC of the result is taken;
\* last_f, last_ph record the last set whose rounded BIC improved
RS_Pass ==
    /\ pc = "rs_loop"
    /\ rf_improves(bic_prev, bic)
    /\ i < MaxPass
    /\ f_n' = f_n_temp /\ ph_n' = ph_n_temp
    /\ bic_prev' = bic
    /\ \E r \in RefineEntriesH(aux.close_f, f_n_temp, ph_n_temp, aux.harmonics) :
         /\ f_n_temp' = r[1] /\ ph_n_temp' = r[2]
         /\ const_slope' = linear_pars(r[1], r[2])
    /\ \E g \in {-10, 0, 5, 20} :
         /\ resid' = resid - g
         /\ bic' = calc_bic(resid', n_param)
         /\ i + 1 = MaxPass => ~rf_improves(bic_prev', bic')
    /\ i' = i + 1
    /\ aux' = IF rf_improves(bic_prev', bic')
              THEN [aux EXCEPT !.last_f = f_n_temp', !.last_ph = ph_n_temp']
              ELSE aux
    /\ UNCHANGED <<pc, n_sectors, n_param>>

\* the loop ends; const, slope are redone without the last pass of changes
RS_Return ==
    /\ pc = "rs_loop"
    /\ ~rf_improves(bic_prev, bic)
    /\ pc' = "rs_done"
    /\ const_slope' = linear_pars(f_n, ph_n)
    /\ UNCHANGED <<n_sectors, f_n, ph_n, f_n_temp, ph_n_temp, resid, n_param,
                   bic, bic_prev, i, aux>>

RS_Next ==
    \/ RS_Pass
    \/ RS_Return

SpecRS ==
    RS_Init /\ [][RS_Next]_vars

\* C26: refine_subset and refine_subset_harmonics return arrays of the length
\* of their input in which only the entries at close_f may differ from the
\* input, the returned parameters are those of the last pass whose rounded
\* BIC improved (the input when none did), and a harmonic in close_f keeps
\* its input frequency
C26_OnlyCloseEntriesChange ==
    pc = "rs_done" =>
        /\ Len(f_n) = Len(aux.f_in) /\ Len(ph_n) = Len(aux.ph_in)
        /\ \A k \in Idx(f_n) \ aux.close_f :
             f_n[k] = aux.f_in[k] /\ ph_n[k] = aux.ph_in[k]
        /\ f_n = aux.last_f /\ ph_n = aux.last_ph
        /\ \A k \in aux.close_f \cap aux.harmonics : f_n[k] = aux.f_in[k]

\* a harmonic-aware call returns a set refined in an improving pass after a
\* later pass that changed the set again was rejected
C26_Witness ==
    /\ pc = "rs_done"
    /\ aux.close_f \cap aux.harmonics # {}
    /\ f_n # aux.f_in
    /\ f_n_temp # f_n

(***************************************************************************)
(* the trend returned by the extraction and reduction routines             *)
(***************************************************************************)
\* a call of extract_all, extract_additional_frequencies, refine_subset,
\* extract_additional_harmonics or reduce_frequencies
SpecStages ==
    /\ EA_Init \/ EAF_Init \/ RS_Init \/ EAH_Init \/ RF_Init
    /\ [][EA_Next \/ EAF_Next \/ RS_Next \/ EAH_Next \/ RF_Next]_vars

C28_LockedLastAscending ==
    LET keep == np_delete(aux.f_in,
                          {e[1] : e \in find_harmonics_tolerance(aux.f_in, f_orb)})
        k0 == Len(keep)
    IN  /\ pc = "fhf_lock" =>
              /\ Len(f_n) >= i - 1
              /\ \A k \in 1..(i - 1) :
                     f_n[Len(f_n) - (i - 1) + k] = aux.unique_n[k] * f_orb
        /\ pc \in {"fhf_resettle", "fhf_done"} =>
              /\ Len(f_n) = k0 + Len(aux.unique_n)
              /\ \A k \in Idx(aux.unique_n) : f_n[k0 + k] = aux.unique_n[k] * f_orb
              /\ \A k \in 1..(Len(aux.unique_n) - 1) :
                     aux.unique_n[k] < aux.unique_n[k + 1]
              /\ aux.moved \subseteq 1..k0
              /\ \A k \in 1..k0 : k \in aux.moved \/ f_n[k] = keep[k]

\* two harmonic numbers given in descending order and an unmatched sinusoid
\* between them come back as the unmatched one followed by the two locked
\* harmonics in ascending order
C28_Witness ==
    /\ pc = "fhf_done"
    /\ aux.f_in = <<30, 13, 7>>
    /\ f_n = <<13, f_orb, 4 * f_orb>>

\* the grouping loop runs while not_used is not empty
LiveGFF ==
    SpecGFF /\ WF_vars(GFF_Next)

\* C29: the groups of group_frequencies_for_fit partition the positions of
\* a_n: at every point each position is in exactly one group or once in
\* not_used, every amplitude in an earlier group is >= every amplitude in a
\* later group and >= every amplitude still in not_used; each pass of the
\* loop removes at least one position from not_used, and the loop ends with
\* not_used empty
C29_GroupsPartition ==
    /\ [](\A x \in Idx(aux.a_n) :
            Cardinality({e \in {<<k, p>> : k \in Idx(aux.groups), p \in 1..MaxAmpl + 1} :
                            e[2] <= Len(aux.groups[e[1]]) /\ aux.groups[e[1]][e[2]] = x})
            + Cardinality({p \in Idx(aux.not_used) : aux.not_used[p] = x}) = 1)
    /\ [](\A k \in Idx(aux.groups) : \A p \in Idx(aux.groups[k]) :
            /\ aux.groups[k][p] \in Idx(aux.a_n)
            /\ \A l \in Idx(aux.groups) : \A q \in Idx(aux.groups[l]) :
                  k < l => aux.a_n[aux.groups[k][p]] >= aux.a_n[aux.groups[l][q]]
            /\ \A q \in Idx(aux.not_used) :
                  aux.a_n[aux.groups[k][p]] >= aux.a_n[aux.not_used[q]])
    /\ [][pc' = "gff_loop" => Len(aux'.not_used) < Len(aux.not_used)]_vars
    /\ <>(pc = "gff_done" /\ aux.not_used = <<>>)

\* a call returned three groups holding amplitudes of different sizes
C29_Witness ==
    /\ pc = "gff_done"
    /\ Len(aux.groups) >= 3
    /\ \E x, y \in Idx(aux.a_n) : aux.a_n[x] # aux.a_n[y]

\* C30 as stated: extract_additional_harmonics fails only when no harmonic is
\* matched; with a matched harmonic, also one whose number is at or above
\* p_orb * f_max, the deletion of the positions harmonic_n - 1 stays inside
\* the candidate list.
C30_FailsOnlyWithoutHarmonics ==
    pc \in {"eah_raised", "eah_index_error"} => Harmonics(aux.f_in) = {}

====
